---- MODULE Spec2Model ----
(***************************************************************************)
(* ESP-EQ: a four-stage fixed-point audio chain (subsonic high-pass,       *)
(* pre-gain, five-band equalizer, look-ahead limiter) whose configuration  *)
(* is changed by a serial console task and an MQTT event task and saved to *)
(* NVS flash.                                                              *)
(*                                                                         *)
(* Number representation                                                   *)
(*   - samples and biquad state: the int32_t values of the code;           *)
(*   - Q24 coefficients: the int32_t values of the code;                   *)
(*   - a float holding decibels or Hertz: the integer h standing for the   *)
(*     float nearest to h/100 (what atof of a two-decimal text yields);    *)
(*   - a float holding a linear gain, a threshold, an envelope or a        *)
(*     smoothing coefficient: value * 2^24 as an integer (Q24).  The float *)
(*     has a 24 bit mantissa, so values in [0.5, 1] are exact in Q24.      *)
(* TLC integers are 32 bit, so the 64 bit products of the code are         *)
(* computed limb by limb (MulShr).                                         *)
(***************************************************************************)
EXTENDS Integers, Sequences, FiniteSets, TLC

VARIABLES subsonic, pregain, equalizer, limiter, nvs, audio, ser, mq, cfgw, lim_io, ncmds,
          mqtt, wifi, con

vars == <<subsonic, pregain, equalizer, limiter, nvs, audio, ser, mq, cfgw, lim_io, ncmds, mqtt, wifi, con>>

-----------------------------------------------------------------------------
(* Integer helpers                                                          *)

Abs(x) == IF x < 0 THEN -x ELSE x

Max2(a, b) == IF a > b THEN a ELSE b

Two15 == 2 ^ 15
Two16 == 2 ^ 16
Two23 == 2 ^ 23
Two24 == 2 ^ 24
Two30 == 2 ^ 30
INT32_MAX == 2147483647
INT32_MIN == -2147483647 - 1

\* n / d rounded to nearest, ties to even (the rounding of float arithmetic)
RoundHalfEven(n, d) ==
  LET q == n \div d
      r == n % d
  IN  IF 2 * r > d \/ (2 * r = d /\ q % 2 = 1) THEN q + 1 ELSE q

\* (int64_t)a * b >> s for |a|, |b| < 2^29 and 0 <= s <= 30, the shift being
\* arithmetic (floor).  a*b = hi * 2^30 + lo with 0 <= lo < 2^30.
MulShr(a, b, s) ==
  LET ah == a \div Two15
      al == a % Two15
      bh == b \div Two15
      bl == b % Two15
      M  == ah * bl + al * bh
      lo0 == (M % Two15) * Two15 + al * bl
      hi == ah * bh + (M \div Two15) + (lo0 \div Two30)
      lo == lo0 % Two30
  IN  hi * (2 ^ (30 - s)) + (lo \div (2 ^ s))

\* (int32_t) of a value that fits int64: keep the low 32 bits, two's complement.
\* The model's values stay within one wrap of the int32 range.
ToInt32(x) ==
  IF x > INT32_MAX THEN x - INT32_MAX - INT32_MAX - 2
  ELSE IF x < INT32_MIN THEN x + INT32_MAX + INT32_MAX + 2
  ELSE x

\* clamp of an int64 to the int32 range (limiter.cpp 177-180, pregain.cpp 60-61)
ClampInt32(x) == IF x > INT32_MAX THEN INT32_MAX ELSE IF x < INT32_MIN THEN INT32_MIN ELSE x

-----------------------------------------------------------------------------
(* float conversions of the persistence layer                               *)

\* The binary exponent e + 7 of the float nearest a/100, a >= 1: 2^e <= a/100 < 2^(e+1)
FloatExp7(a) == CHOOSE k \in 0..16 : 100 * (2 ^ k) <= a * 128 /\ a * 128 < 100 * (2 ^ (k + 1))

\* (int32_t)(x * 100.0f) for the float x nearest h/100: the 24 bit mantissa of x,
\* the float product rounded to 24 bits, then truncation toward zero.
FloatTimes100ToInt(h) ==
  IF h = 0 THEN 0
  ELSE LET a  == Abs(h)
           sh == 30 - FloatExp7(a)                  \* 23 - e
           m  == RoundHalfEven(a * (2 ^ sh), 100)   \* mantissa of x
           P  == m * 100
           d  == IF P >= Two30 THEN 7 ELSE 6        \* bits dropped by the float product
           Pr == RoundHalfEven(P, 2 ^ d) * (2 ^ d)
           r  == Pr \div (2 ^ sh)
       IN  IF h > 0 THEN r ELSE -r

\* (float)n / 100.0f: the float nearest n/100, which the model writes n
IntToFloatDiv100(n) == n

-----------------------------------------------------------------------------
(* Coefficient derivation.  powf, sinf, cosf and expf are evaluated off line *)
(* in float arithmetic at SAMPLE_RATE for the decibel and Hertz values the   *)
(* model uses; each table row is the five (int32_t)(c * 16777216.0f).        *)

SAMPLE_RATE == 48000
EQ_BANDS == 5
Bands == 0..(EQ_BANDS - 1)

TableGains == <<-1200, -400, -200, -100, 0, 52, 53, 100, 200, 300, 400, 500, 600, 1200>>

GainIndex(g) == CHOOSE i \in 1..Len(TableGains) : TableGains[i] = g

\* PeakingTable[GainIndex(g)][band + 1] = <<b0, b1, b2, a1, a2>> at 60, 250, 1000, 4000, 12000 Hz, Q 0.707
PeakingTable ==
  <<
     <<<<16639514, -33185622, 16547130, -33185622, 16409427>>,
       <<16222791, -32056446, 15850829, -32056446, 15296404>>,
       <<14823227, -28093110, 13512297, -28093110, 11558309>>,
       <<11580231, -17038016, 8093576, -17038016, 2896591>>,
       <<9424769, 0, 4492015, 0, -2860432>>>>,
     <<<<16734223, -33320402, 16587208, -33320402, 16544213>>,
       <<16601959, -32587178, 16002677, -32587178, 15827419>>,
       <<16132603, -29803828, 13928400, -29803828, 13283788>>,
       <<14870001, -20107738, 8348415, -20107738, 6441200>>,
       <<13861068, 0, 3889509, 0, 973360>>>>,
     <<<<16755845, -33345584, 16590767, -33345584, 16569395>>,
       <<16689895, -32687798, 16015415, -32687798, 15928094>>,
       <<16453368, -30145134, 13951888, -30145134, 13628039>>,
       <<15797060, -20804668, 8226102, -20804668, 7245946>>,
       <<15250557, 0, 3458284, 0, 1931624>>>>,
     <<<<16766545, -33357142, 16591626, -33357142, 16580954>>,
       <<16733566, -32734136, 16018106, -32734136, 15974456>>,
       <<16614706, -30304234, 13951020, -30304234, 13788511>>,
       <<16280049, -21140586, 8130999, -21140586, 7633831>>,
       <<15995810, 0, 3187813, 0, 2406407>>>>,
     <<<<16777216, -33368058, 16591870, -33368058, 16591870>>,
       <<16777216, -32778004, 16018348, -32778004, 16018348>>,
       <<16777216, -30455980, 13941568, -30455980, 13941568>>,
       <<16777216, -21467822, 8011690, -21467822, 8011690>>,
       <<16777216, 0, 2877285, 0, 2877285>>>>,
     <<<<16782764, -33373494, 16591757, -33373494, 16597307>>,
       <<16799950, -32799878, 16017500, -32799878, 16040234>>,
       <<16862322, -30532072, 13933210, -30532072, 14018316>>,
       <<17041676, -21634488, 7939680, -21634488, 8204140>>,
       <<17198500, 0, 2699076, 0, 3120359>>>>,
     <<<<16782874, -33373600, 16591755, -33373600, 16597412>>,
       <<16800388, -32800292, 16017477, -32800292, 16040649>>,
       <<16863964, -30533518, 13933027, -30533518, 14019774>>,
       <<17046802, -21637670, 7938227, -21637670, 8207814>>,
       <<17206704, 0, 2695532, 0, 3125020>>>>,
     <<<<16787894, -33378374, 16591507, -33378374, 16602186>>,
       <<16820980, -32819524, 16016126, -32819524, 16059890>>,
       <<16941316, -30600642, 13923377, -30600642, 14087476>>,
       <<17289566, -21786188, 7866957, -21786188, 8379307>>,
       <<17596794, 0, 2523961, 0, 3343540>>>>,
     <<<<16798614, -33388114, 16590528, -33388114, 16611927>>,
       <<16864994, -32858820, 16011429, -32858820, 16099207>>,
       <<17107438, -30738474, 13896277, -30738474, 14226500>>,
       <<17818188, -22095530, 7695534, -22095530, 8736505>>,
       <<18456700, 0, 2124991, 0, 3804477>>>>,
     <<<<16809412, -33397316, 16588935, -33397316, 16621130>>,
       <<16909394, -32896002, 16004230, -32896002, 16136408>>,
       <<17276038, -30869744, 13860079, -30869744, 14358901>>,
       <<18364260, -22395742, 7496115, -22395742, 9083159>>,
       <<19359244, 0, 1677411, 0, 4259437>>>>,
     <<<<16820320, -33406008, 16586718, -33406008, 16629823>>,
       <<16954322, -32931182, 15994500, -32931182, 16171607>>,
       <<17447586, -30994704, 13814570, -30994704, 14484939>>,
       <<18929050, -22686742, 7267343, -22686742, 9419177>>,
       <<20306876, 0, 1178139, 0, 4707800>>>>,
     <<<<16831378, -33414222, 16583874, -33414222, 16638036>>,
       <<16999924, -32964464, 15982199, -32964464, 16204907>>,
       <<17622562, -31113602, 13759516, -31113602, 14604864>>,
       <<19513920, -22968488, 7007806, -22968488, 9744510>>,
       <<21302224, 0, 623970, 0, 5148979>>>>,
     <<<<16842616, -33421974, 16580388, -33421974, 16645790>>,
       <<17046342, -32995946, 15967283, -32995946, 16236406>>,
       <<17801484, -31226692, 13694663, -31226692, 14718930>>,
       <<20120334, -23240972, 6716030, -23240972, 10059149>>,
       <<22348088, 0, 11562, 0, 5582434>>>>,
     <<<<16916058, -33460252, 16545225, -33460252, 16684067>>,
       <<17350588, -33151998, 15819169, -33151998, 16392541>>,
       <<18988778, -31796328, 13081918, -31796328, 15293480>>,
       <<24306506, -24684350, 4196525, -24684350, 11725817>>,
       <<29865450, 1, -5091912, 1, 7996323>>>>
  >>

\* calculate_peaking_filter(&coeffs, frequencies[band], gain_db, SAMPLE_RATE, Q_FACTOR)
calculate_peaking_filter(band, gain_db) ==
  LET t == PeakingTable[GainIndex(gain_db)][band + 1]
  IN  [b0 |-> t[1], b1 |-> t[2], b2 |-> t[3], a1 |-> t[4], a2 |-> t[5]]

TableFreqs == <<1500, 2500, 3000, 5000>>

HighpassTable ==
  << <<16753934, -33507868, 16753934, -33507836, 16730686>>,
     <<16738433, -33476866, 16738433, -33476776, 16699739>>,
     <<16730687, -33461374, 16730687, -33461244, 16684286>>,
     <<16699739, -33399478, 16699739, -33399120, 16622620>> >>

\* calculate_highpass_filter(&coeffs, freq, SAMPLE_RATE, SUBSONIC_Q)
calculate_highpass_filter(freq) ==
  LET t == HighpassTable[CHOOSE i \in 1..Len(TableFreqs) : TableFreqs[i] = freq]
  IN  [b0 |-> t[1], b1 |-> t[2], b2 |-> t[3], a1 |-> t[4], a2 |-> t[5]]

TableDb == <<-1200, -600, -53, -52, -50, 0, 52, 53, 600, 1200>>

LinearTable == <<4214246, 8408526, 15784103, 15802285, 15838713, 16777216,
                 17812296, 17832814, 33474948, 66791304>>

\* powf(10.0f, db / 20.0f) in Q24
db_to_linear(db) == LinearTable[CHOOSE i \in 1..Len(TableDb) : TableDb[i] = db]

-----------------------------------------------------------------------------
(* Biquad evaluation, the same statements in subsonic_process and           *)
(* equalizer_process: five products, each shifted on its own, summed in     *)
(* int64 and cast to int32.                                                 *)

ZeroState == [x1 |-> 0, x2 |-> 0, y1 |-> 0, y2 |-> 0]

biquad_output(c, st, input) ==
  ToInt32(MulShr(c.b0, input, 24) + MulShr(c.b1, st.x1, 24) + MulShr(c.b2, st.x2, 24)
          - MulShr(c.a1, st.y1, 24) - MulShr(c.a2, st.y2, 24))

\* the same update with x1 and y1 assigned before x2 and y2 take their values
biquad_update_wrong_order(st, input, output) ==
  [x1 |-> input, x2 |-> input, y1 |-> output, y2 |-> output]

biquad_update(st, input, output) ==
  [x1 |-> input, x2 |-> st.x1, y1 |-> output, y2 |-> st.y1]

\* the same loop keeping one state for both channels
RECURSIVE biquad_block_shared_state(_, _, _, _, _)
biquad_block_shared_state(c, sl, sr, buf, f) ==
  IF 2 * f > Len(buf) THEN [buf |-> buf, state_left |-> sl, state_right |-> sr]
  ELSE LET input_l  == buf[2 * f - 1]
           output_l == biquad_output(c, sl, input_l)
           sl1      == biquad_update(sl, input_l, output_l)
           input_r  == buf[2 * f]
           output_r == biquad_output(c, sl1, input_r)
           sl2      == biquad_update(sl1, input_r, output_r)
       IN  biquad_block_shared_state(c, sl2, sl2,
                        [buf EXCEPT ![2 * f - 1] = output_l, ![2 * f] = output_r], f + 1)

\* The loop body of subsonic_process and of one band of equalizer_process:
\* frame by frame, left sample then right sample, each channel with its own
\* state.  Frame f holds buf[2f - 1] (left) and buf[2f] (right).
RECURSIVE biquad_block(_, _, _, _, _)
biquad_block(c, sl, sr, buf, f) ==
  IF 2 * f > Len(buf) THEN [buf |-> buf, state_left |-> sl, state_right |-> sr]
  ELSE LET input_l  == buf[2 * f - 1]
           output_l == biquad_output(c, sl, input_l)
           input_r  == buf[2 * f]
           output_r == biquad_output(c, sr, input_r)
       IN  biquad_block(c, biquad_update(sl, input_l, output_l),
                        biquad_update(sr, input_r, output_r),
                        [buf EXCEPT ![2 * f - 1] = output_l, ![2 * f] = output_r], f + 1)

-----------------------------------------------------------------------------
(* Subsonic stage (subsonic.cpp)                                            *)

SUBSONIC_FREQ_HZ == 2500

subsonic_init ==
  [enabled |-> TRUE, cutoff_freq |-> SUBSONIC_FREQ_HZ,
   coeffs |-> calculate_highpass_filter(SUBSONIC_FREQ_HZ),
   state_left |-> ZeroState, state_right |-> ZeroState]

subsonic_reset(s) == [s EXCEPT !.state_left = ZeroState, !.state_right = ZeroState]

\* freq < 15.0f || freq > 50.0f
subsonic_freq_ok(freq) == ~(freq < 1500 \/ freq > 5000)

\* the return value of subsonic_set_frequency
subsonic_set_frequency_ret(s, freq) == subsonic_freq_ok(freq)

\* the same setter resetting the filter state before it validates
subsonic_set_frequency_reset_first(s, freq) ==
  IF ~subsonic_freq_ok(freq) THEN subsonic_reset(s)
  ELSE subsonic_reset([s EXCEPT !.cutoff_freq = freq,
                                !.coeffs = calculate_highpass_filter(freq)])

subsonic_set_frequency(s, freq) ==
  IF ~subsonic_freq_ok(freq) THEN s
  ELSE subsonic_reset([s EXCEPT !.cutoff_freq = freq,
                                !.coeffs = calculate_highpass_filter(freq)])

subsonic_set_enabled(s, enable) == [s EXCEPT !.enabled = enable]

\* returns [buf, sub]: the block after the stage and the stage after the block
subsonic_process(s, buf) ==
  IF ~s.enabled THEN [buf |-> buf, st |-> s]
  ELSE LET r == biquad_block(s.coeffs, s.state_left, s.state_right, buf, 1)
       IN  [buf |-> r.buf,
            st |-> [s EXCEPT !.state_left = r.state_left, !.state_right = r.state_right]]

-----------------------------------------------------------------------------
(* Pre-gain stage (pregain.cpp)                                             *)

PREGAIN_MIN_DB == -1200
PREGAIN_MAX_DB == 1200
PREGAIN_DEFAULT_DB == 0

pregain_init == [enabled |-> TRUE, gain_db |-> PREGAIN_DEFAULT_DB, gain_linear |-> Two24]

ClampDb(db, lo, hi) == IF db < lo THEN lo ELSE IF db > hi THEN hi ELSE db

\* the return value of pregain_set_gain
pregain_set_gain_ret(gain_db) == TRUE

\* the same setter refusing a value outside the range, as subsonic_set_frequency does
pregain_set_gain_rejecting(p, gain_db) ==
  IF gain_db < PREGAIN_MIN_DB \/ gain_db > PREGAIN_MAX_DB THEN p
  ELSE [p EXCEPT !.gain_db = gain_db, !.gain_linear = db_to_linear(gain_db)]

pregain_set_gain(p, gain_db) ==
  LET g == ClampDb(gain_db, PREGAIN_MIN_DB, PREGAIN_MAX_DB)
  IN  [p EXCEPT !.gain_db = g, !.gain_linear = db_to_linear(g)]

pregain_set_enabled(p, enabled) == [p EXCEPT !.enabled = enabled]

\* the low 30 bits of a * b, for 0 <= a, b < 2^29
MulLo30(a, b) ==
  LET ah == a \div Two15
      al == a % Two15
      bh == b \div Two15
      bl == b % Two15
      M  == ah * bl + al * bh
  IN  ((M % Two15) * Two15 + al * bl) % Two30

\* (int64_t)(buffer[i] * gain_linear) for a sample of magnitude a < 2^24 (exact
\* as a float) and a gain g in Q24: the float product keeps 24 significant
\* bits, rounded to nearest and ties to even, and the cast drops the fraction.
float_product_to_int(a, g) ==
  LET H == MulShr(a, g, 24)
  IN  IF H = 0 THEN 0
      ELSE LET e == CHOOSE k \in 0..30 : 2 ^ k <= H /\ H < 2 ^ (k + 1)
               s == e + 1
               q == MulShr(a, g, s)
               r == MulLo30(a, g) % (2 ^ s)
               half == 2 ^ (s - 1)
               m == IF r > half \/ (r = half /\ q % 2 = 1) THEN q + 1 ELSE q
           IN  IF e >= 23 THEN m * (2 ^ (e - 23)) ELSE m \div (2 ^ (23 - e))

\* the float an int32_t of magnitude 2^24 or more converts to, as [m, s] for
\* the magnitude m * 2^s: 24 significant bits, rounded to nearest, ties to even
int_to_float(x) ==
  IF x = INT32_MIN THEN [m |-> Two23, s |-> 8]
  ELSE LET a == Abs(x)
           k == CHOOSE j \in 24..30 : 2 ^ j <= a /\ (j = 30 \/ a < 2 ^ (j + 1))
       IN  [m |-> RoundHalfEven(a, 2 ^ (k - 23)), s |-> k - 23]

\* the magnitude of (int64_t)(f * g) for the float f = m * 2^s of int_to_float
\* and a gain g in Q24, as [over, v]: over when it is 2^31 or more, v
\* otherwise.  The product m * g, of 45 to 51 bits, keeps 24 significant bits.
float_product_wide(f, g) ==
  LET H == MulShr(f.m, g, 24)
      e == CHOOSE k \in 0..30 : 2 ^ k <= H /\ H < 2 ^ (k + 1)
      q == MulShr(f.m, g, e + 1)
      r == MulLo30(f.m, g) % (2 ^ (e + 1))
      half == 2 ^ e
      mant == IF r > half \/ (r = half /\ q % 2 = 1) THEN q + 1 ELSE q
      k == e + f.s - 23
  IN  IF k >= 8 \/ (k = 7 /\ mant >= Two24) THEN [over |-> TRUE, v |-> 0]
      ELSE IF k >= 0 THEN [over |-> FALSE, v |-> mant * (2 ^ k)]
      ELSE [over |-> FALSE, v |-> mant \div (2 ^ (-k))]

\* the same sample with the two clamps exchanged: a product beyond the range
\* is written with the opposite sign, as a wrapped one would be
pregain_sample_wrapping(x, gain_linear) ==
  IF x > -Two24 /\ x < Two24
  THEN LET m == float_product_to_int(Abs(x), gain_linear)
       IN  IF x < 0 THEN -m ELSE m
  ELSE LET p == float_product_wide(int_to_float(x), gain_linear)
       IN  IF p.over THEN (IF x < 0 THEN INT32_MAX ELSE INT32_MIN)
           ELSE IF x < 0 THEN -p.v ELSE p.v

\* one sample of the loop of pregain_process: the product, then the clamp to
\* the int32 range
pregain_sample(x, gain_linear) ==
  IF x > -Two24 /\ x < Two24
  THEN LET m == float_product_to_int(Abs(x), gain_linear)
       IN  ClampInt32(IF x < 0 THEN -m ELSE m)
  ELSE LET p == float_product_wide(int_to_float(x), gain_linear)
       IN  IF p.over THEN (IF x < 0 THEN INT32_MIN ELSE INT32_MAX)
           ELSE IF x < 0 THEN -p.v ELSE p.v

pregain_process(p, buf) ==
  IF ~p.enabled THEN buf
  ELSE IF p.gain_db = 0 THEN buf
  ELSE [i \in 1..Len(buf) |-> pregain_sample(buf[i], p.gain_linear)]

-----------------------------------------------------------------------------
(* Equalizer stage (equalizer.cpp)                                          *)

equalizer_init ==
  [enabled |-> TRUE,
   gain_db |-> [b \in Bands |-> 0],
   coeffs |-> [b \in Bands |-> calculate_peaking_filter(b, 0)],
   state_left |-> [b \in Bands |-> ZeroState],
   state_right |-> [b \in Bands |-> ZeroState]]

\* the return value of equalizer_set_band_gain
equalizer_set_band_gain_ret(band) == ~(band < 0 \/ band >= EQ_BANDS)

\* the same setter clearing the channel states, as subsonic_set_frequency does
equalizer_set_band_gain_resetting(eq, band, gain_db) ==
  IF band < 0 \/ band >= EQ_BANDS THEN eq
  ELSE LET g == ClampDb(gain_db, -1200, 1200)
       IN  [eq EXCEPT !.gain_db[band] = g, !.coeffs[band] = calculate_peaking_filter(band, g),
                      !.state_left = [b \in Bands |-> ZeroState],
                      !.state_right = [b \in Bands |-> ZeroState]]

equalizer_set_band_gain(eq, band, gain_db) ==
  IF band < 0 \/ band >= EQ_BANDS THEN eq
  ELSE LET g == ClampDb(gain_db, -1200, 1200)
       IN  [eq EXCEPT !.gain_db[band] = g, !.coeffs[band] = calculate_peaking_filter(band, g)]

equalizer_set_enabled(eq, enabled) == [eq EXCEPT !.enabled = enabled]

\* the same reset also taking every band back to 0 dB
equalizer_reset_to_flat(eq) ==
  [eq EXCEPT !.state_left = [b \in Bands |-> ZeroState],
             !.state_right = [b \in Bands |-> ZeroState],
             !.gain_db = [b \in Bands |-> 0],
             !.coeffs = [b \in Bands |-> calculate_peaking_filter(b, 0)]]

equalizer_reset(eq) ==
  [eq EXCEPT !.state_left = [b \in Bands |-> ZeroState],
             !.state_right = [b \in Bands |-> ZeroState]]

\* the cascade: band 0 over the whole block, then band 1, ...
RECURSIVE equalizer_cascade(_, _, _)
equalizer_cascade(eq, buf, band) ==
  IF band >= EQ_BANDS THEN [buf |-> buf, st |-> eq]
  ELSE LET r == biquad_block(eq.coeffs[band], eq.state_left[band], eq.state_right[band], buf, 1)
       IN  equalizer_cascade([eq EXCEPT !.state_left[band] = r.state_left,
                                        !.state_right[band] = r.state_right],
                             r.buf, band + 1)

\* the same stage without the test of enabled
equalizer_process_no_bypass(eq, buf) ==
  IF \A b \in Bands : eq.gain_db[b] = 0 THEN [buf |-> buf, st |-> eq]
  ELSE equalizer_cascade(eq, buf, 0)

\* the same stage without the test of the five gains against 0.0f
equalizer_process_no_fast_path(eq, buf) ==
  IF ~eq.enabled THEN [buf |-> buf, st |-> eq]
  ELSE equalizer_cascade(eq, buf, 0)

equalizer_process(eq, buf) ==
  IF ~eq.enabled THEN [buf |-> buf, st |-> eq]
  ELSE IF \A b \in Bands : eq.gain_db[b] = 0 THEN [buf |-> buf, st |-> eq]
  ELSE equalizer_cascade(eq, buf, 0)

-----------------------------------------------------------------------------
(* Limiter stage (limiter.cpp).  threshold, envelope, min_envelope and the  *)
(* two smoothing coefficients are Q24.  peak_reduction_db holds the Q24     *)
(* linear value x whose decibel value 20 log10(x) the code stores: log10f   *)
(* is increasing, so comparing decibels is comparing these.                 *)

LIMITER_THRESHOLD_DB == -50
MAX_LOOKAHEAD_SAMPLES == 512
LIMITER_LOOKAHEAD_MS == 5
\* expf(-1.0f / (0.0005f * 48000)) and expf(-1.0f / (0.05f * 48000)) in Q24
ATTACK_COEFF == 16092529
RELEASE_COEFF == 16770227
\* 1e-8f is below the Q24 resolution: the smallest positive Q24 value stands for it
MIN_ENVELOPE == 1
\* 0.999f in Q24 (exact)
TRIGGER_LEVEL == 16760439
\* 1e-6f in Q24 is 16.78: a Q24 difference exceeds it iff it exceeds 16
STATS_EPSILON == 16
STATS_UPDATE_INTERVAL == 16

\* (int)((LIMITER_LOOKAHEAD_MS * sample_rate * 2.0f) / 1000.0f), capped
lookahead_samples_for(sample_rate) ==
  LET n == (LIMITER_LOOKAHEAD_MS * sample_rate * 2) \div 1000
  IN  IF n > MAX_LOOKAHEAD_SAMPLES THEN MAX_LOOKAHEAD_SAMPLES ELSE n

limiter_init ==
  [threshold_db |-> LIMITER_THRESHOLD_DB,
   threshold |-> db_to_linear(LIMITER_THRESHOLD_DB),
   lookahead_samples |-> lookahead_samples_for(SAMPLE_RATE),
   attack_coeff |-> ATTACK_COEFF,
   release_coeff |-> RELEASE_COEFF,
   envelope |-> Two24,
   lookahead_buffer |-> [i \in 0..(MAX_LOOKAHEAD_SAMPLES - 1) |-> 0],
   write_index |-> 0,
   enabled |-> TRUE,
   peak_reduction_db |-> Two24,
   clip_prevented_count |-> 0,
   stats_update_counter |-> 0,
   min_envelope |-> Two24,
   trigger_cb |-> FALSE,
   is_triggered |-> FALSE]

\* the sample rates audio_config.h names for SAMPLE_RATE
SupportedRates == {44100, 48000, 96000, 192000}

\* expf(-1.0f / (0.0005f * sample_rate)) in Q24
attack_coeff_for(sample_rate) ==
  CASE sample_rate = 44100 -> 16033340
    [] sample_rate = 48000 -> ATTACK_COEFF
    [] sample_rate = 96000 -> 16431306
    [] sample_rate = 192000 -> 16603360

\* expf(-1.0f / (0.05f * sample_rate)) in Q24
release_coeff_for(sample_rate) ==
  CASE sample_rate = 44100 -> 16769609
    [] sample_rate = 48000 -> RELEASE_COEFF
    [] sample_rate = 96000 -> 16773721
    [] sample_rate = 192000 -> 16775468

\* limiter_init called with another sample rate than SAMPLE_RATE
limiter_init_at(sample_rate) ==
  [limiter_init EXCEPT !.lookahead_samples = lookahead_samples_for(sample_rate),
                       !.attack_coeff = attack_coeff_for(sample_rate),
                       !.release_coeff = release_coeff_for(sample_rate)]

limiter_set_enabled(l, enabled) == [l EXCEPT !.enabled = enabled]

limiter_set_trigger_callback(l, cb) == [l EXCEPT !.trigger_cb = cb]

\* the return value of limiter_set_threshold
limiter_set_threshold_ret(threshold_db) == TRUE

limiter_set_threshold(l, threshold_db) ==
  LET t == ClampDb(threshold_db, -1200, 0)
  IN  [l EXCEPT !.threshold_db = t, !.threshold = db_to_linear(t)]

\* the same reset leaving the look-ahead buffer as it is
limiter_reset_keeps_buffer(l) ==
  [l EXCEPT !.write_index = 0,
            !.envelope = Two24,
            !.stats_update_counter = 0,
            !.min_envelope = Two24]

limiter_reset(l) ==
  [l EXCEPT !.lookahead_buffer = [i \in 0..(MAX_LOOKAHEAD_SAMPLES - 1) |-> 0],
            !.write_index = 0,
            !.envelope = Two24,
            !.stats_update_counter = 0,
            !.min_envelope = Two24]

limiter_reset_stats(l) == [l EXCEPT !.peak_reduction_db = Two24, !.clip_prevented_count = 0]

fast_abs_max(a, b) == Max2(Abs(a), Abs(b))

\* floor(num * 2^n / den) for 0 <= num < den < 2^30: the float quotient in Q24
RECURSIVE Ratio(_, _, _)
Ratio(num, den, n) ==
  IF n = 0 THEN 0
  ELSE IF 2 * num >= den THEN (2 ^ (n - 1)) + Ratio(2 * num - den, den, n - 1)
  ELSE Ratio(2 * num, den, n - 1)

\* the float product of two Q24 values, rounded to nearest
MulQ24(a, b) == (MulShr(a, b, 23) + 1) \div 2

\* peak > THRESHOLD_LINEAR && peak > 0.0f, THRESHOLD_LINEAR = threshold * 2^23
limiter_over(l, peak) == 2 * peak > l.threshold /\ peak > 0

limiter_desired_gain(l, peak) ==
  IF limiter_over(l, peak)
  THEN Max2(Ratio(l.threshold, 2 * peak, 24), MIN_ENVELOPE)
  ELSE Two24

\* the same follower adding the whole desired gain in the release branch
limiter_envelope_unweighted_release(l, desired_gain) ==
  LET e == IF desired_gain < l.envelope
           THEN MulQ24(l.attack_coeff, l.envelope) + MulQ24(Two24 - l.attack_coeff, desired_gain)
           ELSE MulQ24(l.release_coeff, l.envelope) + desired_gain
  IN  IF e < MIN_ENVELOPE THEN MIN_ENVELOPE ELSE e

limiter_envelope(l, desired_gain) ==
  LET e == IF desired_gain < l.envelope
           THEN MulQ24(l.attack_coeff, l.envelope) + MulQ24(Two24 - l.attack_coeff, desired_gain)
           ELSE MulQ24(l.release_coeff, l.envelope) + MulQ24(Two24 - l.release_coeff, desired_gain)
  IN  IF e < MIN_ENVELOPE THEN MIN_ENVELOPE ELSE e

\* (int32_t)(envelope * 65536.0f + 0.5f)
limiter_gain_q16(envelope) == (envelope + 128) \div 256

\* delayed * gain_q16 >> 16, clamped to int32
limiter_apply(delayed, gain_q16) == ClampInt32(MulShr(delayed, gain_q16, 16))

\* is_triggered after the test of the envelope against 0.999 (limiter.cpp 159-169)
limiter_is_triggered(l, now_triggered) ==
  IF ~l.is_triggered /\ now_triggered THEN TRUE
  ELSE IF l.is_triggered /\ ~now_triggered THEN FALSE
  ELSE l.is_triggered

\* the same test calling the callback on either change of is_triggered
limiter_calls_back_both_ways(l, now_triggered) ==
  /\ l.trigger_cb
  /\ \/ ~l.is_triggered /\ now_triggered
     \/ l.is_triggered /\ ~now_triggered

\* the same test calling the callback at every frame below 0.999
limiter_calls_back_while_triggered(l, now_triggered) ==
  /\ now_triggered
  /\ l.trigger_cb

\* whether that test calls trigger_cb
limiter_calls_back(l, now_triggered) ==
  /\ ~l.is_triggered /\ now_triggered
  /\ l.trigger_cb

\* the same counter going up at most once in a call: not again once it has
\* left the value it had at limiter_init or limiter_reset_stats
limiter_clip_count_once(l, over) ==
  IF over /\ l.clip_prevented_count = 0 THEN 1 ELSE l.clip_prevented_count

\* clip_prevented_count after the test of the peak (limiter.cpp 118-122)
limiter_clip_count(l, over) ==
  IF over THEN l.clip_prevented_count + 1 ELSE l.clip_prevented_count

\* the same advance wrapping only above lookahead_samples
limiter_advance_wraps_late(l) ==
  IF l.write_index + 2 > l.lookahead_samples THEN 0 ELSE l.write_index + 2

\* the same advance taken modulo lookahead_samples
limiter_advance_modulo(l) == (l.write_index + 2) % l.lookahead_samples

\* write_index += 2, back to 0 at lookahead_samples (limiter.cpp 108-111)
limiter_advance(l) ==
  IF l.write_index + 2 >= l.lookahead_samples THEN 0 ELSE l.write_index + 2

\* One pass of the loop body (limiter.cpp 98-184) on the frame (in_l, in_r):
\* the limiter after it, the two samples written, and whether the callback ran.
limiter_frame(l, in_l, in_r) ==
  LET wi            == l.write_index
      delayed_left  == l.lookahead_buffer[wi]
      delayed_right == l.lookahead_buffer[wi + 1]
      wi2           == limiter_advance(l)
      peak          == fast_abs_max(in_l, in_r)
      over          == limiter_over(l, peak)
      desired_gain  == limiter_desired_gain(l, peak)
      env           == limiter_envelope(l, desired_gain)
      changed       == Abs(l.envelope - env) > STATS_EPSILON
      counter       == IF changed THEN l.stats_update_counter + 1 ELSE l.stats_update_counter
      update        == changed /\ counter >= STATS_UPDATE_INTERVAL
      new_min       == update /\ env < l.min_envelope
      now_triggered == env < TRIGGER_LEVEL
      gain_q16      == limiter_gain_q16(env)
  IN  [st |-> [l EXCEPT
                 !.lookahead_buffer = [@ EXCEPT ![wi] = in_l, ![wi + 1] = in_r],
                 !.write_index = wi2,
                 !.clip_prevented_count = limiter_clip_count(l, over),
                 !.envelope = env,
                 !.stats_update_counter = IF update THEN 0 ELSE counter,
                 !.min_envelope = IF new_min THEN env ELSE @,
                 !.peak_reduction_db = IF new_min /\ env < @ THEN env ELSE @,
                 !.is_triggered = limiter_is_triggered(l, now_triggered)],
       out_l |-> limiter_apply(delayed_left, gain_q16),
       out_r |-> limiter_apply(delayed_right, gain_q16),
       notified |-> limiter_calls_back(l, now_triggered),
       updated |-> update]

\* The loop of limiter_process on the frames lo .. hi of buf, in order.  The
\* range is halved, and the first half evaluated (a.calls >= 0 always holds)
\* before the second is entered, so that the evaluation stays shallow.
\* Returns the block written so far, the limiter after it and the callbacks
\* made.
RECURSIVE limiter_block(_, _, _, _, _)
limiter_block(l, buf, lo, hi, calls) ==
  IF lo > hi THEN [buf |-> buf, st |-> l, calls |-> calls]
  ELSE IF lo = hi
  THEN LET r == limiter_frame(l, buf[2 * lo - 1], buf[2 * lo])
       IN  [buf |-> [buf EXCEPT ![2 * lo - 1] = r.out_l, ![2 * lo] = r.out_r],
            st |-> r.st,
            calls |-> IF r.notified THEN calls + 1 ELSE calls]
  ELSE LET mid == (lo + hi) \div 2
           a == limiter_block(l, buf, lo, mid, calls)
       IN  IF a.calls >= 0 THEN limiter_block(a.st, a.buf, mid + 1, hi, a.calls) ELSE a

\* the same call storing the block in the look-ahead buffer while disabled
limiter_process_stores_when_disabled(l, buf) ==
  IF ~l.enabled
  THEN [buf |-> buf, st |-> limiter_block(l, buf, 1, Len(buf) \div 2, 0).st, calls |-> 0]
  ELSE limiter_block(l, buf, 1, Len(buf) \div 2, 0)

limiter_process(l, buf) ==
  IF ~l.enabled THEN [buf |-> buf, st |-> l, calls |-> 0]
  ELSE limiter_block(l, buf, 1, Len(buf) \div 2, 0)

-----------------------------------------------------------------------------
(* The persistent store (NVS): one namespace per stage.  A key is absent    *)
(* until a save writes it.  nvs_open for reading fails while the namespace  *)
(* holds nothing.  A save ends in one of SaveOutcomes: every call succeeds  *)
(* ("ok"), nvs_open fails ("open_fails"), or the nvs_set of the first       *)
(* numeric key fails after the enabled flag was written ("set_fails").      *)

NoKey == [has |-> FALSE, v |-> 0]
Stored(x) == [has |-> TRUE, v |-> x]
Flag(b) == IF b THEN 1 ELSE 0

nvs_empty ==
  [subsonic  |-> [enabled |-> NoKey, frequency |-> NoKey],
   pregain   |-> [enabled |-> NoKey, gain |-> NoKey],
   equalizer |-> [enabled |-> NoKey, band |-> [b \in Bands |-> NoKey]],
   limiter   |-> [enabled |-> NoKey, threshold |-> NoKey]]

SaveOutcomes == {"ok", "open_fails", "set_fails"}

subsonic_save_settings(s, ns, outcome) ==
  IF outcome = "open_fails" THEN ns
  ELSE IF outcome = "set_fails" THEN [ns EXCEPT !.enabled = Stored(Flag(s.enabled))]
  ELSE [enabled |-> Stored(Flag(s.enabled)), frequency |-> Stored(s.cutoff_freq)]

\* returns [st, ok]: the stage after the load and whether ESP_OK was returned
subsonic_load_settings(s, ns) ==
  IF ~ns.enabled.has /\ ~ns.frequency.has THEN [st |-> s, ok |-> FALSE]
  ELSE LET s1 == IF ns.enabled.has THEN [s EXCEPT !.enabled = (ns.enabled.v # 0)] ELSE s
           s2 == IF ns.frequency.has THEN subsonic_set_frequency(s1, ns.frequency.v) ELSE s1
       IN  [st |-> s2, ok |-> TRUE]

pregain_save_settings(p, ns, outcome) ==
  IF outcome = "open_fails" THEN ns
  ELSE IF outcome = "set_fails" THEN [ns EXCEPT !.enabled = Stored(Flag(p.enabled))]
  ELSE [enabled |-> Stored(Flag(p.enabled)), gain |-> Stored(FloatTimes100ToInt(p.gain_db))]

pregain_load_settings(p, ns) ==
  IF ~ns.enabled.has /\ ~ns.gain.has THEN [st |-> p, ok |-> FALSE]
  ELSE LET p1 == IF ns.enabled.has THEN [p EXCEPT !.enabled = (ns.enabled.v # 0)] ELSE p
       IN  IF ns.gain.has
           THEN [st |-> pregain_set_gain(p1, IntToFloatDiv100(ns.gain.v)), ok |-> TRUE]
           ELSE [st |-> p1, ok |-> FALSE]

equalizer_save_settings(eq, ns, outcome) ==
  IF outcome = "open_fails" THEN ns
  ELSE IF outcome = "set_fails" THEN [ns EXCEPT !.enabled = Stored(Flag(eq.enabled))]
  ELSE [enabled |-> Stored(Flag(eq.enabled)),
        band |-> [b \in Bands |-> Stored(FloatTimes100ToInt(eq.gain_db[b]))]]

RECURSIVE equalizer_load_bands(_, _, _)
equalizer_load_bands(eq, ns, i) ==
  IF i >= EQ_BANDS THEN eq
  ELSE equalizer_load_bands(
         IF ns.band[i].has
         THEN equalizer_set_band_gain(eq, i, IntToFloatDiv100(ns.band[i].v)) ELSE eq,
         ns, i + 1)

equalizer_load_settings(eq, ns) ==
  IF ~ns.enabled.has /\ \A b \in Bands : ~ns.band[b].has THEN [st |-> eq, ok |-> FALSE]
  ELSE LET e1 == IF ns.enabled.has THEN [eq EXCEPT !.enabled = (ns.enabled.v # 0)] ELSE eq
       IN  [st |-> equalizer_load_bands(e1, ns, 0), ok |-> \E b \in Bands : ns.band[b].has]

limiter_save_settings(l, ns, outcome) ==
  IF outcome = "open_fails" THEN ns
  ELSE IF outcome = "set_fails" THEN [ns EXCEPT !.enabled = Stored(Flag(l.enabled))]
  ELSE [enabled |-> Stored(Flag(l.enabled)),
        threshold |-> Stored(FloatTimes100ToInt(l.threshold_db))]

limiter_load_settings(l, ns) ==
  IF ~ns.enabled.has /\ ~ns.threshold.has THEN [st |-> l, ok |-> FALSE]
  ELSE LET l1 == IF ns.enabled.has THEN [l EXCEPT !.enabled = (ns.enabled.v # 0)] ELSE l
       IN  [st |-> IF ns.threshold.has
                   THEN limiter_set_threshold(l1, IntToFloatDiv100(ns.threshold.v)) ELSE l1,
            ok |-> TRUE]

\* app_main 270-312: init, load, and on any return but ESP_OK set_enabled(true)
boot_subsonic(ns) ==
  LET r == subsonic_load_settings(subsonic_init, ns)
  IN  IF r.ok THEN r.st ELSE subsonic_set_enabled(r.st, TRUE)

boot_pregain(ns) ==
  LET r == pregain_load_settings(pregain_init, ns)
  IN  IF r.ok THEN r.st ELSE pregain_set_enabled(r.st, TRUE)

boot_equalizer(ns) ==
  LET r == equalizer_load_settings(equalizer_init, ns)
  IN  IF r.ok THEN r.st ELSE equalizer_set_enabled(r.st, TRUE)

\* the same step leaving the limiter off when nothing could be loaded
boot_limiter_off_without_store(ns) ==
  LET r == limiter_load_settings(limiter_init, ns)
  IN  IF r.ok THEN r.st ELSE limiter_set_enabled(r.st, FALSE)

boot_limiter(ns) ==
  LET r == limiter_load_settings(limiter_init, ns)
  IN  IF r.ok THEN r.st ELSE limiter_set_enabled(r.st, TRUE)

-----------------------------------------------------------------------------
(* Configuration commands.  A command is [verb, band, v, name]; v is the    *)
(* number atof read (hundredths), name the preset name.  Sys is the         *)
(* configuration a handler works on: the four stages and the store.         *)

Cmd(verb, band, v, name) == [verb |-> verb, band |-> band, v |-> v, name |-> name]

Sys == [subsonic |-> subsonic, pregain |-> pregain, equalizer |-> equalizer,
        limiter |-> limiter, nvs |-> nvs]

RECURSIVE set_bands(_, _, _)
set_bands(eq, gains, i) ==
  IF i >= EQ_BANDS THEN eq
  ELSE set_bands(equalizer_set_band_gain(eq, i, gains[i + 1]), gains, i + 1)

\* apply_preset of the console (serial_commands.cpp 86-144); <<>>: unknown name
serial_preset_gains(name) ==
  CASE name = "flat"  -> <<0, 0, 0, 0, 0>>
    [] name = "bass"  -> <<600, 400, 0, 0, 0>>
    [] name = "vocal" -> <<-200, 0, 300, 500, 200>>
    [] name = "rock"  -> <<500, 300, -400, 200, 600>>
    [] name = "jazz"  -> <<200, 100, 0, 100, 300>>
    [] OTHER          -> <<>>

apply_preset(eq, name) ==
  LET g == serial_preset_gains(name)
  IN  IF g = <<>> THEN eq ELSE set_bands(eq, g, 0)

\* the preset branch of process_mqtt_command (mqtt_manager.cpp 148-182)
mqtt_preset_gains(name) ==
  CASE name = "flat"  -> <<0, 0, 0, 0, 0>>
    [] name = "bass"  -> <<600, 400, 0, 0, 0>>
    [] name = "vocal" -> <<-200, 0, 400, 300, -100>>
    [] name = "rock"  -> <<500, 300, -200, 200, 400>>
    [] name = "jazz"  -> <<300, 200, 0, 200, 300>>
    [] OTHER          -> <<>>

mqtt_apply_preset(eq, name) ==
  LET g == mqtt_preset_gains(name)
  IN  IF g = <<>> THEN eq ELSE set_bands(eq, g, 0)

\* the same call giving the stage back its defaults when the save fails
save_stage_reverting(stage, S, outcome) ==
  IF outcome = "ok"
  THEN CASE stage = "subsonic" ->
              [S EXCEPT !.nvs.subsonic = subsonic_save_settings(S.subsonic, @, outcome)]
         [] stage = "pregain" ->
              [S EXCEPT !.nvs.pregain = pregain_save_settings(S.pregain, @, outcome)]
         [] stage = "equalizer" ->
              [S EXCEPT !.nvs.equalizer = equalizer_save_settings(S.equalizer, @, outcome)]
         [] stage = "limiter" ->
              [S EXCEPT !.nvs.limiter = limiter_save_settings(S.limiter, @, outcome)]
  ELSE CASE stage = "subsonic" -> [S EXCEPT !.subsonic = subsonic_init]
         [] stage = "pregain" -> [S EXCEPT !.pregain = pregain_init]
         [] stage = "equalizer" -> [S EXCEPT !.equalizer = equalizer_init]
         [] stage = "limiter" -> [S EXCEPT !.limiter = limiter_init]

\* the stage's save_settings on the configuration S
save_stage(stage, S, outcome) ==
  CASE stage = "subsonic" ->
         [S EXCEPT !.nvs.subsonic = subsonic_save_settings(S.subsonic, @, outcome)]
    [] stage = "pregain" ->
         [S EXCEPT !.nvs.pregain = pregain_save_settings(S.pregain, @, outcome)]
    [] stage = "equalizer" ->
         [S EXCEPT !.nvs.equalizer = equalizer_save_settings(S.equalizer, @, outcome)]
    [] stage = "limiter" ->
         [S EXCEPT !.nvs.limiter = limiter_save_settings(S.limiter, @, outcome)]

Applied(S, save, calls) == [S |-> S, save |-> save, calls |-> calls]

\* process_command up to its call of save_settings, one operator per first
\* token: the configuration after the setters, the stage whose save_settings
\* the branch then calls ("none" when it calls none), and the setters called.
serial_eq(c, S) ==
  CASE c.verb = "eq_set" ->
         IF c.band < 0 \/ c.band >= 5 THEN Applied(S, "none", <<>>)
         ELSE Applied([S EXCEPT !.equalizer = equalizer_set_band_gain(@, c.band, c.v)],
                      IF equalizer_set_band_gain_ret(c.band) THEN "equalizer" ELSE "none",
                      <<"equalizer_set_band_gain">>)
    [] c.verb = "eq_enable" ->
         Applied([S EXCEPT !.equalizer = equalizer_set_enabled(@, TRUE)],
                 "equalizer", <<"equalizer_set_enabled">>)
    [] c.verb = "eq_disable" ->
         Applied([S EXCEPT !.equalizer = equalizer_set_enabled(@, FALSE)],
                 "equalizer", <<"equalizer_set_enabled">>)
    [] c.verb = "eq_reset" ->
         Applied([S EXCEPT !.equalizer = equalizer_reset(@)], "none", <<"equalizer_reset">>)
    [] c.verb = "eq_preset" ->
         Applied([S EXCEPT !.equalizer = apply_preset(@, c.name)],
                 "equalizer", <<"apply_preset">>)
    [] c.verb = "eq_save" -> Applied(S, "equalizer", <<>>)

serial_lim(c, S) ==
  CASE c.verb = "lim_threshold" ->
         Applied([S EXCEPT !.limiter = limiter_set_threshold(@, c.v)],
                 "limiter", <<"limiter_set_threshold">>)
    [] c.verb = "lim_enable" ->
         Applied([S EXCEPT !.limiter = limiter_set_enabled(@, TRUE)],
                 "limiter", <<"limiter_set_enabled">>)
    [] c.verb = "lim_disable" ->
         Applied([S EXCEPT !.limiter = limiter_set_enabled(@, FALSE)],
                 "limiter", <<"limiter_set_enabled">>)
    [] c.verb = "lim_reset" ->
         Applied([S EXCEPT !.limiter = limiter_reset(@)], "none", <<"limiter_reset">>)

\* the same branch without the save after "gain disable"
serial_gain_unsaved_disable(c, S) ==
  CASE c.verb = "gain_set" ->
         Applied([S EXCEPT !.pregain = pregain_set_gain(@, c.v)],
                 "pregain", <<"pregain_set_gain">>)
    [] c.verb = "gain_enable" ->
         Applied([S EXCEPT !.pregain = pregain_set_enabled(@, TRUE)],
                 "pregain", <<"pregain_set_enabled">>)
    [] c.verb = "gain_disable" ->
         Applied([S EXCEPT !.pregain = pregain_set_enabled(@, FALSE)],
                 "none", <<"pregain_set_enabled">>)

serial_gain(c, S) ==
  CASE c.verb = "gain_set" ->
         Applied([S EXCEPT !.pregain = pregain_set_gain(@, c.v)],
                 "pregain", <<"pregain_set_gain">>)
    [] c.verb = "gain_enable" ->
         Applied([S EXCEPT !.pregain = pregain_set_enabled(@, TRUE)],
                 "pregain", <<"pregain_set_enabled">>)
    [] c.verb = "gain_disable" ->
         Applied([S EXCEPT !.pregain = pregain_set_enabled(@, FALSE)],
                 "pregain", <<"pregain_set_enabled">>)

serial_sub(c, S) ==
  CASE c.verb = "sub_freq" ->
         Applied([S EXCEPT !.subsonic = subsonic_set_frequency(@, c.v)],
                 IF subsonic_set_frequency_ret(S.subsonic, c.v) THEN "subsonic" ELSE "none",
                 <<"subsonic_set_frequency">>)
    [] c.verb = "sub_enable" ->
         Applied([S EXCEPT !.subsonic = subsonic_set_enabled(@, TRUE)],
                 "subsonic", <<"subsonic_set_enabled">>)
    [] c.verb = "sub_disable" ->
         Applied([S EXCEPT !.subsonic = subsonic_set_enabled(@, FALSE)],
                 "subsonic", <<"subsonic_set_enabled">>)
    [] c.verb = "sub_reset" ->
         Applied([S EXCEPT !.subsonic = subsonic_reset(@)], "none", <<"subsonic_reset">>)

serial_apply(c, S) ==
  CASE c.verb \in {"eq_set", "eq_enable", "eq_disable", "eq_reset", "eq_preset", "eq_save"} ->
         serial_eq(c, S)
    [] c.verb \in {"lim_threshold", "lim_enable", "lim_disable", "lim_reset"} ->
         serial_lim(c, S)
    [] c.verb \in {"gain_set", "gain_enable", "gain_disable"} -> serial_gain(c, S)
    [] c.verb \in {"sub_freq", "sub_enable", "sub_disable", "sub_reset"} -> serial_sub(c, S)
    [] OTHER -> Applied(S, "none", <<>>)

SaveName(stage) ==
  CASE stage = "subsonic" -> "subsonic_save_settings"
    [] stage = "pregain" -> "pregain_save_settings"
    [] stage = "equalizer" -> "equalizer_save_settings"
    [] stage = "limiter" -> "limiter_save_settings"

\* process_command(cmd): the configuration it leaves and the calls it made
process_command(c, S, outcome) ==
  LET r == serial_apply(c, S)
  IN  IF r.save = "none" THEN [S |-> r.S, calls |-> r.calls]
      ELSE [S |-> save_stage(r.save, r.S, outcome),
            calls |-> Append(r.calls, SaveName(r.save))]

\* process_mqtt_command up to its call of save_settings.  The enable topics
\* carry "true" (verb ..._enable) or anything else (verb ..._disable).
mqtt_apply(c, S) ==
  CASE c.verb = "sub_freq" ->
         Applied([S EXCEPT !.subsonic = subsonic_set_frequency(@, c.v)],
                 IF subsonic_set_frequency_ret(S.subsonic, c.v) THEN "subsonic" ELSE "none",
                 <<"subsonic_set_frequency">>)
    [] c.verb \in {"sub_enable", "sub_disable"} ->
         Applied([S EXCEPT !.subsonic = subsonic_set_enabled(@, c.verb = "sub_enable")],
                 "subsonic", <<"subsonic_set_enabled">>)
    [] c.verb = "gain_set" ->
         Applied([S EXCEPT !.pregain = pregain_set_gain(@, c.v)],
                 "pregain", <<"pregain_set_gain">>)
    [] c.verb \in {"gain_enable", "gain_disable"} ->
         Applied([S EXCEPT !.pregain = pregain_set_enabled(@, c.verb = "gain_enable")],
                 "pregain", <<"pregain_set_enabled">>)
    [] c.verb = "eq_set" ->
         IF c.band >= 0 /\ c.band < 5 /\ equalizer_set_band_gain_ret(c.band)
         THEN Applied([S EXCEPT !.equalizer = equalizer_set_band_gain(@, c.band, c.v)],
                      "equalizer", <<"equalizer_set_band_gain">>)
         ELSE Applied(S, "none", <<>>)
    [] c.verb \in {"eq_enable", "eq_disable"} ->
         Applied([S EXCEPT !.equalizer = equalizer_set_enabled(@, c.verb = "eq_enable")],
                 "equalizer", <<"equalizer_set_enabled">>)
    [] c.verb = "eq_preset" ->
         Applied([S EXCEPT !.equalizer = mqtt_apply_preset(@, c.name)],
                 "equalizer", <<"equalizer_set_band_gain">>)
    [] c.verb = "lim_threshold" ->
         Applied([S EXCEPT !.limiter = limiter_set_threshold(@, c.v)],
                 "limiter", <<"limiter_set_threshold">>)
    [] c.verb \in {"lim_enable", "lim_disable"} ->
         Applied([S EXCEPT !.limiter = limiter_set_enabled(@, c.verb = "lim_enable")],
                 "limiter", <<"limiter_set_enabled">>)
    [] OTHER -> Applied(S, "none", <<>>)

\* char value[128]: the payload is copied when data_len > 0 && data_len < sizeof(value)
VALUE_SIZE == 128

mqtt_value_copied(data_len) == data_len > 0 /\ data_len < VALUE_SIZE

\* what the handler reads from value when the payload would read as c: c
\* itself when the payload was copied, and otherwise what the empty string
\* gives: atof("") = 0, strcmp(value, "true") # 0, no preset name
mqtt_received(c, data_len) ==
  IF mqtt_value_copied(data_len) THEN c
  ELSE CASE c.verb \in {"sub_freq", "gain_set", "eq_set", "lim_threshold"} -> [c EXCEPT !.v = 0]
         [] c.verb \in {"sub_enable", "sub_disable"} -> [c EXCEPT !.verb = "sub_disable"]
         [] c.verb \in {"gain_enable", "gain_disable"} -> [c EXCEPT !.verb = "gain_disable"]
         [] c.verb \in {"eq_enable", "eq_disable"} -> [c EXCEPT !.verb = "eq_disable"]
         [] c.verb \in {"lim_enable", "lim_disable"} -> [c EXCEPT !.verb = "lim_disable"]
         [] c.verb = "eq_preset" -> [c EXCEPT !.name = ""]
         [] OTHER -> c

process_mqtt_command(c, S, outcome) ==
  LET r == mqtt_apply(c, S)
  IN  IF r.save = "none" THEN [S |-> r.S, calls |-> r.calls]
      ELSE [S |-> save_stage(r.save, r.S, outcome),
            calls |-> Append(r.calls, SaveName(r.save))]

-----------------------------------------------------------------------------
(* The state topics (mqtt_manager.cpp 380-467).  mqtt is the client's       *)
(* s_is_connected and what the broker retains on the four state topics: a   *)
(* payload is <<enabled, number>>, the number as "%.1f" prints it (tenths), *)
(* or <<>> while nothing was published.  The status topic is left out.      *)
(* data_len is the length of the last payload process_mqtt_command was      *)
(* called with, -1 while unknown.                                            *)

StateTopics == {"subsonic", "pregain", "equalizer", "limiter"}

NotConnected ==
  [s_is_connected |-> FALSE, retained |-> [t \in StateTopics |-> <<>>], data_len |-> -1]

\* "%.1f" of the float nearest h / 100, in tenths: rounded to nearest; a value
\* ending in 5 hundredths is rounded as its float lies, which is to even where
\* the float is exact (.25, .75)
FormatTenths(h) == IF h < 0 THEN -RoundHalfEven(-h, 10) ELSE RoundHalfEven(h, 10)

\* retained publish: refused while the client is not connected
mqtt_manager_publish(m, topic, data) ==
  IF ~m.s_is_connected THEN m ELSE [m EXCEPT !.retained[topic] = data]

mqtt_manager_publish_subsonic_state(m, S) ==
  mqtt_manager_publish(m, "subsonic",
                       <<S.subsonic.enabled, FormatTenths(S.subsonic.cutoff_freq)>>)

mqtt_manager_publish_pregain_state(m, S) ==
  mqtt_manager_publish(m, "pregain", <<S.pregain.enabled, FormatTenths(S.pregain.gain_db)>>)

mqtt_manager_publish_eq_state(m, S) ==
  mqtt_manager_publish(m, "equalizer",
                       <<S.equalizer.enabled,
                         [b \in Bands |-> FormatTenths(S.equalizer.gain_db[b])]>>)

mqtt_manager_publish_limiter_state(m, S) ==
  mqtt_manager_publish(m, "limiter",
                       <<S.limiter.enabled, FormatTenths(S.limiter.threshold_db)>>)

mqtt_manager_publish_all_states(m, S) ==
  mqtt_manager_publish_limiter_state(
    mqtt_manager_publish_eq_state(
      mqtt_manager_publish_pregain_state(
        mqtt_manager_publish_subsonic_state(m, S), S), S), S)

\* the publish that ends a branch of process_mqtt_command: the branches
\* that save publish the state of the stage they saved
mqtt_publish_after(stage, m, S) ==
  CASE stage = "subsonic" -> mqtt_manager_publish_subsonic_state(m, S)
    [] stage = "pregain" -> mqtt_manager_publish_pregain_state(m, S)
    [] stage = "equalizer" -> mqtt_manager_publish_eq_state(m, S)
    [] stage = "limiter" -> mqtt_manager_publish_limiter_state(m, S)
    [] OTHER -> m

-----------------------------------------------------------------------------
(* The WiFi manager (wifi_manager.cpp) and the part of app_main that waits  *)
(* for it.  wifi holds s_retry_num, s_is_connected and the bits of          *)
(* s_wifi_event_group, whether the store holds credentials and a broker,    *)
(* the statement app_main stands at (pc), whether the station was started   *)
(* and its start event is still to be handled (start_event), whether a      *)
(* connection attempt is waiting for its answer (pending), whether the MQTT *)
(* client was started, and the reconnect attempts made since the last       *)
(* got-IP event (reconnects).                                               *)

WIFI_MAXIMUM_RETRY == 5

\* the state with no credentials stored, once app_main has run through
WifiOff ==
  [credentials |-> FALSE, broker |-> FALSE, pc |-> "running",
   start_event |-> FALSE, pending |-> FALSE, s_retry_num |-> 0,
   s_is_connected |-> FALSE, bits |-> {}, mqtt_started |-> FALSE,
   reconnects |-> 0]

\* the test of the disconnect branch with <= for <
wifi_should_retry_once_more(w) == w.s_retry_num <= WIFI_MAXIMUM_RETRY

\* the test of the disconnect branch of event_handler
wifi_should_retry(w) == w.s_retry_num < WIFI_MAXIMUM_RETRY

\* the else branch without xEventGroupSetBits
wifi_give_up_silently(w) == [w EXCEPT !.pending = FALSE]

\* the else branch of the disconnect branch: no esp_wifi_connect, the fail bit
wifi_give_up(w) == [w EXCEPT !.pending = FALSE, !.bits = @ \cup {"WIFI_FAIL_BIT"}]

\* event_handler on one event
event_handler(w, event) ==
  CASE event = "WIFI_EVENT_STA_START" ->
         [w EXCEPT !.start_event = FALSE, !.pending = TRUE]
    [] event = "WIFI_EVENT_STA_DISCONNECTED" ->
         LET v == IF wifi_should_retry(w)
                  THEN [w EXCEPT !.pending = TRUE, !.s_retry_num = @ + 1,
                                 !.reconnects = @ + 1]
                  ELSE wifi_give_up(w)
         IN  [v EXCEPT !.s_is_connected = FALSE]
    [] event = "IP_EVENT_STA_GOT_IP" ->
         [w EXCEPT !.s_retry_num = 0, !.s_is_connected = TRUE, !.pending = FALSE,
                   !.bits = @ \cup {"WIFI_CONNECTED_BIT"}, !.reconnects = 0]

\* wifi_manager_init up to the wait of init_wifi_sta
wifi_manager_init(w) ==
  IF ~w.credentials THEN [w EXCEPT !.pc = "mqtt_manager_init"]
  ELSE [w EXCEPT !.pc = "xEventGroupWaitBits", !.start_event = TRUE]

\* mqtt_manager_init: the client is started when WiFi is connected and a
\* broker is stored
mqtt_manager_init(w) ==
  [w EXCEPT !.pc = "serial_commands_init",
            !.mqtt_started = w.s_is_connected /\ w.broker]

-----------------------------------------------------------------------------
(* The console's line buffer (serial_command_task).  con holds cmd_index,   *)
(* the highest index of cmd_buffer written so far (hi, -1 for none), and of *)
(* the last character its class, cmd_index before it and whether the line   *)
(* was passed to process_command.                                           *)

CMD_BUFFER_SIZE == 128

ConsoleIdle ==
  [cmd_index |-> 0, hi |-> -1, last |-> "none", before |-> 0, passed |-> FALSE]

\* the test with sizeof(cmd_buffer) for sizeof(cmd_buffer) - 1
console_has_room_to_the_end(c) == c.cmd_index < CMD_BUFFER_SIZE

\* cmd_index < sizeof(cmd_buffer) - 1
console_has_room(c) == c.cmd_index < CMD_BUFFER_SIZE - 1

\* one pass of the loop of serial_command_task on a character of the class
\* "newline" (\n, \r), "backspace" (\b, 127) or "char"; the call of
\* process_command is in the action
console_char(c, class) ==
  LET d == [c EXCEPT !.last = class, !.before = c.cmd_index, !.passed = FALSE]
  IN  CASE class = "newline" ->
             [d EXCEPT !.hi = Max2(@, c.cmd_index), !.cmd_index = 0,
                       !.passed = c.cmd_index > 0]
        [] class = "backspace" ->
             IF c.cmd_index > 0 THEN [d EXCEPT !.cmd_index = @ - 1] ELSE d
        [] class = "char" ->
             IF console_has_room(c)
             THEN [d EXCEPT !.hi = Max2(@, c.cmd_index), !.cmd_index = @ + 1]
             ELSE d

-----------------------------------------------------------------------------
(* Bounds of the model and the inputs it draws                              *)

MaxCmds == 2      \* configuration commands in one behaviour
MaxBlocks == 2    \* blocks the audio task reads in one behaviour
MaxLimCalls == 2  \* calls of limiter_process in one behaviour of the limiter model
MaxLimCmds == 1   \* console commands in one behaviour of the limiter model
MaxStatResets == 1  \* calls of limiter_reset_stats in one behaviour
NumFrames == 2    \* stereo frames in a block of the pipeline model

\* number arguments of the commands (hundredths): in range, out of range,
\* and 0.53, whose float times 100.0f lies below 53
FreqInputs == {1000, 3000}
GainInputs == {53, 2000}
ThresholdInputs == {-53, 100}
BandInputs == {0, 7}
PresetNames == {"flat", "bass", "vocal", "rock", "jazz", "bogus"}

SwitchVerbs == {"sub_enable", "sub_disable", "gain_enable", "gain_disable",
                "eq_enable", "eq_disable", "lim_enable", "lim_disable"}

\* the commands both channels have
CommonCmds ==
  {Cmd("sub_freq", 0, v, "") : v \in FreqInputs}
    \cup {Cmd("gain_set", 0, v, "") : v \in GainInputs}
    \cup {Cmd("eq_set", b, v, "") : b \in BandInputs, v \in GainInputs}
    \cup {Cmd("lim_threshold", 0, v, "") : v \in ThresholdInputs}
    \cup {Cmd(verb, 0, 0, "") : verb \in SwitchVerbs}
    \cup {Cmd("eq_preset", 0, 0, n) : n \in PresetNames}

\* the console's own verbs
SerialOnlyCmds ==
  {Cmd(verb, 0, 0, "") : verb \in {"eq_reset", "eq_save", "lim_reset", "sub_reset", "status"}}

SerialCmds == CommonCmds \cup SerialOnlyCmds
MqttCmds == CommonCmds

NoCmd == Cmd("none", 0, 0, "")

\* what a task remembers of its last command: its number in the behaviour,
\* the command, the calls it made, and the subsonic stage before and after;
\* and the number of its last command that called limiter_reset (reset_at)
Idle == [n |-> 0, cmd |-> NoCmd, calls |-> <<>>, outcome |-> "ok",
         pre |-> subsonic_init, post |-> subsonic_init, reset_at |-> 0]

Done(t, n, c, r, outcome) ==
  [n |-> n, cmd |-> c, calls |-> r.calls, outcome |-> outcome,
   pre |-> subsonic, post |-> r.S.subsonic,
   reset_at |-> IF \E k \in 1..Len(r.calls) : r.calls[k] = "limiter_reset"
                THEN n ELSE t.reset_at]

-----------------------------------------------------------------------------
(* The console task and the MQTT event task, one command per step           *)

SerialCommand(c, outcome) ==
  /\ ncmds < MaxCmds
  /\ LET r == process_command(c, Sys, outcome)
     IN  /\ subsonic' = r.S.subsonic
         /\ pregain' = r.S.pregain
         /\ equalizer' = r.S.equalizer
         /\ limiter' = r.S.limiter
         /\ nvs' = r.S.nvs
         /\ ser' = Done(ser, ncmds + 1, c, r, outcome)
  /\ ncmds' = ncmds + 1
  /\ UNCHANGED <<audio, mq, cfgw, lim_io, mqtt, wifi, con>>

MqttCommand(c, outcome) ==
  /\ ncmds < MaxCmds
  /\ LET r == process_mqtt_command(c, Sys, outcome)
     IN  /\ subsonic' = r.S.subsonic
         /\ pregain' = r.S.pregain
         /\ equalizer' = r.S.equalizer
         /\ limiter' = r.S.limiter
         /\ nvs' = r.S.nvs
         /\ mq' = Done(mq, ncmds + 1, c, r, outcome)
         /\ mqtt' = mqtt_publish_after(mqtt_apply(c, Sys).save, mqtt, r.S)
  /\ ncmds' = ncmds + 1
  /\ UNCHANGED <<audio, ser, cfgw, lim_io, wifi, con>>

\* a restart: app_main builds every stage from its defaults and the store
Reboot ==
  /\ subsonic' = boot_subsonic(nvs.subsonic)
  /\ pregain' = boot_pregain(nvs.pregain)
  /\ equalizer' = boot_equalizer(nvs.equalizer)
  /\ limiter' = boot_limiter(nvs.limiter)
  /\ ser' = Idle
  /\ mq' = Idle
  /\ mqtt' = [mqtt EXCEPT !.s_is_connected = FALSE]
  /\ UNCHANGED <<nvs, audio, cfgw, lim_io, ncmds, wifi, con>>

\* the audio task between blocks.  Besides its position and its buffer it
\* remembers, for the properties, the last statement it ran (last), the
\* block before it (prev), whether the stage was enabled (last_enabled), the
\* statements of the iteration (log, wlog at the last write) and the
\* coefficients the two filter stages last evaluated samples with (used_*),
\* the block as it entered the four stages (entered), the stages of the
\* iteration that were disabled when called (skipped) and whether the five
\* equalizer gains were all 0 dB at the call of equalizer_process (eq_flat).
AudioIdle == [pc |-> "read", buf |-> <<>>, prev |-> <<>>, last |-> "none",
              last_enabled |-> TRUE, log |-> <<>>, blocks |-> 0,
              wrote |-> FALSE, wlog |-> <<>>, callbacks |-> 0,
              entered |-> <<>>, skipped |-> {}, eq_flat |-> FALSE,
              used_subsonic |-> subsonic_init.coeffs,
              used_equalizer |-> equalizer_init.coeffs]

NoWriter == [pc |-> "idle"]
\* limiter_process run frame by frame: where it stands (pc, the index i of the
\* next sample, the shape of its input block), the number of calls begun,
\* and of the last frame the envelope and is_triggered before it, the two
\* samples written and whether the callback ran; of the whole behaviour the
\* thresholds the calls ran with, whether a call found the limiter disabled,
\* the callbacks made, and of each call that found it enabled the shape of
\* its block and the number of console commands handled before it (hist),
\* the sample rate limiter_init was called with, whether the last frame
\* reached the update of the statistics (updated), the smallest envelope
\* such updates have seen since limiter_init or the last limiter_reset_stats
\* (seen) and the calls of limiter_reset_stats (stat_resets).
NoLimIo == [pc |-> "idle", calls |-> 0, shape |-> "none", i |-> 0,
            stepped |-> FALSE, env_before |-> Two24, was_triggered |-> FALSE,
            out_l |-> 0, out_r |-> 0, fired |-> FALSE,
            thresholds |-> {}, bypassed |-> FALSE, notified |-> 0,
            hist |-> <<>>, sample_rate |-> SAMPLE_RATE,
            updated |-> FALSE, seen |-> Two24, stat_resets |-> 0]

InitCfg ==
  /\ subsonic = boot_subsonic(nvs_empty.subsonic)
  /\ pregain = boot_pregain(nvs_empty.pregain)
  /\ equalizer = boot_equalizer(nvs_empty.equalizer)
  /\ limiter = boot_limiter(nvs_empty.limiter)
  /\ nvs = nvs_empty
  /\ audio = AudioIdle
  /\ ser = Idle
  /\ mq = Idle
  /\ cfgw = NoWriter
  /\ lim_io = NoLimIo
  /\ ncmds = 0
  /\ mqtt = NotConnected
  /\ wifi = WifiOff
  /\ con = ConsoleIdle

NextCfg ==
  \/ \E c \in SerialCmds : SerialCommand(c, "ok")
  \/ \E c \in MqttCmds : MqttCommand(c, "ok")
  \/ Reboot

SpecCfg == InitCfg /\ [][NextCfg]_vars

-----------------------------------------------------------------------------
(* The audio task (esp-dsp.cpp audio_task): one statement of the loop body  *)
(* per step, the configuration tasks running in between.                    *)

\* the loop body with the equalizer called before the pre-gain
audio_next_equalizer_first(pc) ==
  CASE pc = "read" -> "shr8"
    [] pc = "shr8" -> "subsonic_process"
    [] pc = "subsonic_process" -> "equalizer_process"
    [] pc = "equalizer_process" -> "pregain_process"
    [] pc = "pregain_process" -> "limiter_process"
    [] pc = "limiter_process" -> "shl8"
    [] pc = "shl8" -> "write"
    [] pc = "write" -> "read"

\* the statement that follows pc in the loop body
audio_next(pc) ==
  CASE pc = "read" -> "shr8"
    [] pc = "shr8" -> "subsonic_process"
    [] pc = "subsonic_process" -> "pregain_process"
    [] pc = "pregain_process" -> "equalizer_process"
    [] pc = "equalizer_process" -> "limiter_process"
    [] pc = "limiter_process" -> "shl8"
    [] pc = "shl8" -> "write"
    [] pc = "write" -> "read"

\* audio_buffer[i] >> 8 on an int32_t (arithmetic shift)
shr8(x) == x \div 256

\* audio_buffer[i] << 8 on an int32_t: the low 24 bits move up, the sign is bit 23
shl8(x) ==
  LET low == x % Two24
  IN  IF low >= Two23 THEN (low - Two24) * 256 ELSE low * 256

\* what the I2S receiver delivers: 24 bit samples in the upper bits of 32

\* a block of NumFrames stereo frames: full scale on both channels, or one
\* sample followed by silence
InputBlocks ==
  {[i \in 1..(2 * NumFrames) |-> IF i % 2 = 1 THEN INT32_MAX - 255 ELSE INT32_MIN],
   [i \in 1..(2 * NumFrames) |-> IF i = 1 THEN 305419776 ELSE 0]}

\* the statement pc has run: the buffer it left, and the ghost record of it
audio_step(stage, enabled, out) ==
  [audio EXCEPT !.pc = audio_next(@), !.buf = out, !.prev = audio.buf,
                !.last = stage, !.last_enabled = enabled,
                !.log = Append(@, stage),
                !.entered = IF stage = "shr8" THEN out ELSE @,
                !.skipped = IF enabled THEN @ ELSE @ \cup {stage}]

\* i2s_channel_read returns ESP_OK with a block
AudioRead(block) ==
  /\ audio.pc = "read"
  /\ audio.blocks < MaxBlocks
  /\ audio' = [audio EXCEPT !.pc = audio_next(@), !.buf = block, !.prev = block,
                            !.last = "read", !.last_enabled = TRUE,
                            !.log = <<"read">>, !.blocks = @ + 1, !.wrote = FALSE,
                            !.skipped = {}, !.eq_flat = FALSE]
  /\ UNCHANGED <<subsonic, pregain, equalizer, limiter, nvs, ser, mq, cfgw, lim_io, ncmds, mqtt, wifi, con>>

\* the same failure answered by clearing the filters and the limiter
AudioReadFailResetting ==
  /\ audio.pc = "read"
  /\ audio.blocks < MaxBlocks
  /\ audio' = [audio EXCEPT !.last = "read_failed", !.log = <<>>, !.blocks = @ + 1,
                            !.wrote = FALSE]
  /\ subsonic' = subsonic_reset(subsonic)
  /\ equalizer' = equalizer_reset(equalizer)
  /\ limiter' = limiter_reset(limiter)
  /\ UNCHANGED <<pregain, nvs, ser, mq, cfgw, lim_io, ncmds, mqtt, wifi, con>>

\* i2s_channel_read fails: continue
AudioReadFail ==
  /\ audio.pc = "read"
  /\ audio.blocks < MaxBlocks
  /\ audio' = [audio EXCEPT !.last = "read_failed", !.log = <<>>, !.blocks = @ + 1,
                            !.wrote = FALSE]
  /\ UNCHANGED <<subsonic, pregain, equalizer, limiter, nvs, ser, mq, cfgw, lim_io, ncmds, mqtt, wifi, con>>

AudioShiftDown ==
  /\ audio.pc = "shr8"
  /\ audio' = audio_step("shr8", TRUE, [i \in 1..Len(audio.buf) |-> shr8(audio.buf[i])])
  /\ UNCHANGED <<subsonic, pregain, equalizer, limiter, nvs, ser, mq, cfgw, lim_io, ncmds, mqtt, wifi, con>>

AudioSubsonic ==
  /\ audio.pc = "subsonic_process"
  /\ LET r == subsonic_process(subsonic, audio.buf)
     IN  /\ subsonic' = r.st
         /\ audio' = [audio_step("subsonic_process", subsonic.enabled, r.buf)
                        EXCEPT !.used_subsonic = IF subsonic.enabled THEN subsonic.coeffs ELSE @]
  /\ UNCHANGED <<pregain, equalizer, limiter, nvs, ser, mq, cfgw, lim_io, ncmds, mqtt, wifi, con>>

AudioPregain ==
  /\ audio.pc = "pregain_process"
  /\ audio' = audio_step("pregain_process", pregain.enabled, pregain_process(pregain, audio.buf))
  /\ UNCHANGED <<subsonic, pregain, equalizer, limiter, nvs, ser, mq, cfgw, lim_io, ncmds, mqtt, wifi, con>>

AudioEqualizer ==
  /\ audio.pc = "equalizer_process"
  /\ LET r == equalizer_process(equalizer, audio.buf)
     IN  /\ equalizer' = r.st
         /\ audio' = [audio_step("equalizer_process", equalizer.enabled, r.buf)
                        EXCEPT !.used_equalizer =
                                 IF equalizer.enabled /\ \E b \in Bands : equalizer.gain_db[b] # 0
                                 THEN equalizer.coeffs ELSE @,
                               !.eq_flat = \A b \in Bands : equalizer.gain_db[b] = 0]
  /\ UNCHANGED <<subsonic, pregain, limiter, nvs, ser, mq, cfgw, lim_io, ncmds, mqtt, wifi, con>>

AudioLimiter ==
  /\ audio.pc = "limiter_process"
  /\ LET r == limiter_process(limiter, audio.buf)
     IN  /\ limiter' = r.st
         /\ audio' = [audio_step("limiter_process", limiter.enabled, r.buf)
                        EXCEPT !.callbacks = r.calls]
  /\ UNCHANGED <<subsonic, pregain, equalizer, nvs, ser, mq, cfgw, lim_io, ncmds, mqtt, wifi, con>>

AudioShiftUp ==
  /\ audio.pc = "shl8"
  /\ audio' = audio_step("shl8", TRUE, [i \in 1..Len(audio.buf) |-> shl8(audio.buf[i])])
  /\ UNCHANGED <<subsonic, pregain, equalizer, limiter, nvs, ser, mq, cfgw, lim_io, ncmds, mqtt, wifi, con>>

\* i2s_channel_write: a failure is logged and the loop goes on
AudioWrite(ok) ==
  /\ audio.pc = "write"
  /\ audio' = [audio EXCEPT !.pc = audio_next(@), !.last = "write",
                            !.log = Append(@, "write"),
                            !.wrote = ok, !.wlog = Append(audio.log, "write")]
  /\ UNCHANGED <<subsonic, pregain, equalizer, limiter, nvs, ser, mq, cfgw, lim_io, ncmds, mqtt, wifi, con>>

\* the console commands drawn while audio runs
PipelineCmds ==
  {Cmd(verb, 0, 0, "") : verb \in {"sub_disable", "gain_disable", "eq_disable", "lim_disable"}}
    \cup {Cmd("sub_freq", 0, v, "") : v \in FreqInputs}
    \cup {Cmd("gain_set", 0, 2000, ""), Cmd("eq_set", 0, 600, "")}

Init == InitCfg

Next ==
  \/ \E block \in InputBlocks : AudioRead(block)
  \/ AudioReadFail
  \/ AudioShiftDown
  \/ AudioSubsonic
  \/ AudioPregain
  \/ AudioEqualizer
  \/ AudioLimiter
  \/ AudioShiftUp
  \/ \E ok \in BOOLEAN : AudioWrite(ok)
  \/ \E c \in PipelineCmds : SerialCommand(c, "ok")

Spec == Init /\ [][Next]_vars

-----------------------------------------------------------------------------
(* A setter of filter coefficients run statement by statement, the audio    *)
(* task running between its statements.  No lock, critical section or       *)
(* double buffer stands between the two: the audio task has the highest     *)
(* priority and is woken by the I2S driver, the console and MQTT tasks run  *)
(* at priorities 4 and 5.                                                   *)

CoeffFields == <<"b0", "b1", "b2", "a1", "a2">>

\* the assignment that follows the one at pc in calculate_peaking_filter and
\* calculate_highpass_filter
next_field(pc) ==
  CASE pc = "b0" -> "b1"
    [] pc = "b1" -> "b2"
    [] pc = "b2" -> "a1"
    [] pc = "a1" -> "a2"
    [] pc = "a2" -> "return"

SetField(c, f, v) ==
  CASE f = "b0" -> [c EXCEPT !.b0 = v]
    [] f = "b1" -> [c EXCEPT !.b1 = v]
    [] f = "b2" -> [c EXCEPT !.b2 = v]
    [] f = "a1" -> [c EXCEPT !.a1 = v]
    [] f = "a2" -> [c EXCEPT !.a2 = v]

GetField(c, f) ==
  CASE f = "b0" -> c.b0
    [] f = "b1" -> c.b1
    [] f = "b2" -> c.b2
    [] f = "a1" -> c.a1
    [] f = "a2" -> c.a2

\* the setter calls drawn: an equalizer band, the subsonic cutoff
SetterCmds ==
  {Cmd("eq_set", 0, 600, ""), Cmd("eq_set", 4, 2000, ""),
   Cmd("sub_freq", 0, 3000, ""), Cmd("sub_freq", 0, 1000, "")}

\* equalizer_set_band_gain up to the float arithmetic of
\* calculate_peaking_filter: band check, clamp, gain_db[band], the five new
\* values in locals
SetBandGainBegin(c) ==
  /\ cfgw.pc = "idle"
  /\ ncmds < MaxCmds
  /\ c.verb = "eq_set"
  /\ ncmds' = ncmds + 1
  /\ IF c.band < 0 \/ c.band >= EQ_BANDS
     THEN UNCHANGED <<equalizer, cfgw>>
     ELSE LET g == ClampDb(c.v, -1200, 1200)
          IN  /\ equalizer' = [equalizer EXCEPT !.gain_db[c.band] = g]
              /\ cfgw' = [pc |-> "b0", stage |-> "equalizer", band |-> c.band,
                          new |-> calculate_peaking_filter(c.band, g)]
  /\ UNCHANGED <<subsonic, pregain, limiter, nvs, audio, ser, mq, lim_io, mqtt, wifi, con>>

\* subsonic_set_frequency up to the float arithmetic of calculate_highpass_filter
SetFrequencyBegin(c) ==
  /\ cfgw.pc = "idle"
  /\ ncmds < MaxCmds
  /\ c.verb = "sub_freq"
  /\ ncmds' = ncmds + 1
  /\ IF ~subsonic_freq_ok(c.v)
     THEN UNCHANGED <<subsonic, cfgw>>
     ELSE /\ subsonic' = [subsonic EXCEPT !.cutoff_freq = c.v]
          /\ cfgw' = [pc |-> "b0", stage |-> "subsonic", band |-> 0,
                      new |-> calculate_highpass_filter(c.v)]
  /\ UNCHANGED <<equalizer, pregain, limiter, nvs, audio, ser, mq, lim_io, mqtt, wifi, con>>

\* coeffs->f = (int32_t)(f_f * 16777216.0f), one field
WriteCoefficient ==
  /\ cfgw.pc \in {"b0", "b1", "b2", "a1", "a2"}
  /\ IF cfgw.stage = "equalizer"
     THEN /\ equalizer' = [equalizer EXCEPT !.coeffs[cfgw.band] =
                             SetField(@, cfgw.pc, GetField(cfgw.new, cfgw.pc))]
          /\ UNCHANGED subsonic
     ELSE /\ subsonic' = [subsonic EXCEPT !.coeffs =
                            SetField(@, cfgw.pc, GetField(cfgw.new, cfgw.pc))]
          /\ UNCHANGED equalizer
  /\ cfgw' = [cfgw EXCEPT !.pc = next_field(@)]
  /\ UNCHANGED <<pregain, limiter, nvs, audio, ser, mq, lim_io, ncmds, mqtt, wifi, con>>

\* the rest of the setter (subsonic_reset for the subsonic stage) and of the
\* handler that called it: the stage's save_settings
SetterReturn ==
  /\ cfgw.pc = "return"
  /\ LET S == IF cfgw.stage = "subsonic"
              THEN [Sys EXCEPT !.subsonic = subsonic_reset(@)] ELSE Sys
         T == save_stage(cfgw.stage, S, "ok")
     IN  /\ subsonic' = T.subsonic
         /\ nvs' = T.nvs
  /\ cfgw' = NoWriter
  /\ UNCHANGED <<equalizer, pregain, limiter, audio, ser, mq, lim_io, ncmds, mqtt, wifi, con>>

NextTear ==
  \/ \E c \in SetterCmds : SetBandGainBegin(c)
  \/ \E c \in SetterCmds : SetFrequencyBegin(c)
  \/ WriteCoefficient
  \/ SetterReturn
  \/ \E block \in InputBlocks : AudioRead(block)
  \/ AudioReadFail
  \/ AudioShiftDown
  \/ AudioSubsonic
  \/ AudioPregain
  \/ AudioEqualizer
  \/ AudioLimiter
  \/ AudioShiftUp
  \/ \E ok \in BOOLEAN : AudioWrite(ok)

SpecTear == Init /\ [][NextTear]_vars

-----------------------------------------------------------------------------
(* Claim checked under SpecTear                                             *)

PeakingDerivations(band) ==
  {calculate_peaking_filter(band, TableGains[i]) : i \in 1..Len(TableGains)}

HighpassDerivations ==
  {calculate_highpass_filter(TableFreqs[i]) : i \in 1..Len(TableFreqs)}

\* C1: the five coefficients a filter stage last evaluated samples with are
\* the five results of one call of calculate_highpass_filter (subsonic), of
\* one call of calculate_peaking_filter for that band (equalizer).
C1_CoefficientsOfOneDerivation ==
  /\ audio.used_subsonic \in HighpassDerivations
  /\ \A b \in Bands : audio.used_equalizer[b] \in PeakingDerivations(b)

-----------------------------------------------------------------------------
(* limiter_process frame by frame, on blocks of the size the audio task     *)
(* passes: audio_buffer holds DMA_BUFFER_SIZE samples, 240 stereo frames,   *)
(* and the 5 ms lookahead at 48 kHz is exactly one block.  The console's    *)
(* limiter commands and the registration of the callback are drawn between  *)
(* the calls.                                                               *)

DMA_BUFFER_SIZE == 480

FULL_SCALE == Two23

\* the blocks drawn, 24 bit samples as they are after >> 8: full scale
\* throughout, one full-scale frame then silence, one frame 2.6 % above the
\* default threshold then silence
LimShapes == {"full", "impulse", "over"}

\* sample i (from 1) of the block of a shape
LimSample(shape, i) ==
  CASE shape = "full" -> IF i % 2 = 1 THEN FULL_SCALE - 1 ELSE -FULL_SCALE
    [] shape = "impulse" -> IF i = 1 THEN FULL_SCALE - 1 ELSE 0
    [] shape = "over" -> IF i = 1 THEN 8130000 ELSE 0

\* entry of limiter_process: the bypass test
LimiterCall(shape) ==
  /\ lim_io.pc = "idle"
  /\ lim_io.calls < MaxLimCalls
  /\ lim_io' = [lim_io EXCEPT !.pc = IF limiter.enabled THEN "loop" ELSE "idle",
                              !.calls = @ + 1, !.shape = shape, !.i = 0,
                              !.stepped = FALSE,
                              !.thresholds = IF limiter.enabled
                                             THEN @ \cup {limiter.threshold} ELSE @,
                              !.bypassed = @ \/ ~limiter.enabled,
                              !.hist = IF limiter.enabled
                                       THEN Append(@, [shape |-> shape, n |-> ncmds])
                                       ELSE @]
  /\ UNCHANGED <<subsonic, pregain, equalizer, limiter, nvs, audio, ser, mq, cfgw, ncmds, mqtt, wifi, con>>

\* one pass of the loop body; the call returns after the last frame
LimiterFrame ==
  /\ lim_io.pc = "loop"
  /\ LET r == limiter_frame(limiter, LimSample(lim_io.shape, lim_io.i + 1),
                            LimSample(lim_io.shape, lim_io.i + 2))
     IN  /\ limiter' = r.st
         /\ lim_io' = [lim_io EXCEPT
                         !.pc = IF lim_io.i + 2 < DMA_BUFFER_SIZE THEN "loop" ELSE "idle",
                         !.i = @ + 2,
                         !.stepped = TRUE,
                         !.env_before = limiter.envelope,
                         !.was_triggered = limiter.is_triggered,
                         !.out_l = r.out_l, !.out_r = r.out_r,
                         !.fired = r.notified,
                         !.notified = IF r.notified THEN @ + 1 ELSE @,
                         !.updated = r.updated,
                         !.seen = IF r.updated /\ r.st.envelope < @
                                  THEN r.st.envelope ELSE @]
  /\ UNCHANGED <<subsonic, pregain, equalizer, nvs, audio, ser, mq, cfgw, ncmds, mqtt, wifi, con>>

\* limiter_set_trigger_callback with a callback
RegisterCallback ==
  /\ lim_io.pc = "idle"
  /\ ~limiter.trigger_cb
  /\ limiter' = limiter_set_trigger_callback(limiter, TRUE)
  /\ UNCHANGED <<subsonic, pregain, equalizer, nvs, audio, ser, mq, cfgw, lim_io, ncmds, mqtt, wifi, con>>

\* the console's limiter commands drawn
LimiterCmds ==
  {Cmd("lim_threshold", 0, -1200, ""), Cmd("lim_disable", 0, 0, ""),
   Cmd("lim_reset", 0, 0, "")}

LimiterCommand(c) ==
  /\ lim_io.pc = "idle"
  /\ ncmds < MaxLimCmds
  /\ SerialCommand(c, "ok")

NextLim ==
  \/ \E shape \in LimShapes : LimiterCall(shape)
  \/ LimiterFrame
  \/ RegisterCallback
  \/ \E c \in LimiterCmds : LimiterCommand(c)

SpecLim == Init /\ [][NextLim]_vars

-----------------------------------------------------------------------------
(* Claims checked under SpecLim                                             *)

\* C3: when every call so far ran enabled and with one threshold, neither
\* sample a frame writes is larger in magnitude than threshold * 2^23 + 1.
C3_OutputWithinThreshold ==
  (lim_io.stepped /\ ~lim_io.bypassed /\ lim_io.thresholds = {limiter.threshold}) =>
    /\ 2 * Abs(lim_io.out_l) <= limiter.threshold + 2
    /\ 2 * Abs(lim_io.out_r) <= limiter.threshold + 2

\* C5 as amended: with a callback registered, a frame calls it exactly when
\* is_triggered was false before the frame and the envelope after the
\* frame's update is below 0.999; no other frame calls it, in particular
\* none at which the envelope comes back to 0.999 or above.
C5_NotifiesOnEnteringOnly ==
  (lim_io.stepped /\ limiter.trigger_cb) =>
    (lim_io.fired <=> (~lim_io.was_triggered /\ limiter.envelope < TRIGGER_LEVEL))

\* the envelope had been below 0.999, one callback was made on the way
\* down, and the frame that brings it back up makes none
C5_Witness ==
  /\ lim_io.stepped
  /\ limiter.trigger_cb
  /\ lim_io.env_before < TRIGGER_LEVEL
  /\ limiter.envelope >= TRIGGER_LEVEL
  /\ ~lim_io.fired
  /\ lim_io.notified = 1

\* C5 as stated: with a callback registered, a frame calls it exactly when
\* the envelope crosses 0.999 at that frame, downward or upward.
C5_NotifiesOnEveryCrossing ==
  (lim_io.stepped /\ limiter.trigger_cb) =>
    (lim_io.fired <=>
       \/ lim_io.env_before >= TRIGGER_LEVEL /\ limiter.envelope < TRIGGER_LEVEL
       \/ lim_io.env_before < TRIGGER_LEVEL /\ limiter.envelope >= TRIGGER_LEVEL)

-----------------------------------------------------------------------------
(* A console command run statement by statement while the MQTT event task   *)
(* handles commands.  serial_cmd has priority 4 (serial_commands_init), the *)
(* MQTT client task priority 5: the MQTT task preempts the console task     *)
(* between any two of its statements and runs its handler to the end.       *)
(* The console commands drawn are those of the pre-gain and the limiter,    *)
(* whose save_settings write the enabled flag and one number.               *)

RaceCmds ==
  {Cmd("gain_set", 0, 600, ""), Cmd("gain_set", 0, 2000, ""), Cmd("gain_disable", 0, 0, ""),
   Cmd("lim_threshold", 0, -600, ""), Cmd("lim_disable", 0, 0, "")}

\* process_command up to the call of save_settings: the setter
SerialSetter(c) ==
  /\ cfgw.pc = "idle"
  /\ ncmds < MaxCmds
  /\ LET r == serial_apply(c, Sys)
     IN  /\ pregain' = r.S.pregain
         /\ limiter' = r.S.limiter
         /\ cfgw' = [pc |-> "nvs_set_enabled", stage |-> r.save, fixed |-> 0]
         /\ ser' = [Idle EXCEPT !.n = ncmds + 1, !.cmd = c, !.calls = r.calls]
  /\ ncmds' = ncmds + 1
  /\ UNCHANGED <<subsonic, equalizer, nvs, audio, mq, lim_io, mqtt, wifi, con>>

\* nvs_open, nvs_set_u8(handle, "enabled", stage->enabled ? 1 : 0)
SerialSaveEnabled ==
  /\ cfgw.pc = "nvs_set_enabled"
  /\ nvs' = IF cfgw.stage = "pregain"
            THEN [nvs EXCEPT !.pregain.enabled = Stored(Flag(pregain.enabled))]
            ELSE [nvs EXCEPT !.limiter.enabled = Stored(Flag(limiter.enabled))]
  /\ cfgw' = [cfgw EXCEPT !.pc = "convert"]
  /\ UNCHANGED <<subsonic, pregain, equalizer, limiter, audio, ser, mq, lim_io, ncmds, mqtt, wifi, con>>

\* int32_t fixed = (int32_t)(stage->value * 100.0f)
SerialConvert ==
  /\ cfgw.pc = "convert"
  /\ cfgw' = [cfgw EXCEPT !.pc = "nvs_set_i32",
                          !.fixed = IF cfgw.stage = "pregain"
                                    THEN FloatTimes100ToInt(pregain.gain_db)
                                    ELSE FloatTimes100ToInt(limiter.threshold_db)]
  /\ UNCHANGED <<subsonic, pregain, equalizer, limiter, nvs, audio, ser, mq, lim_io, ncmds, mqtt, wifi, con>>

\* nvs_set_i32(handle, key, fixed), nvs_commit, nvs_close, and the return to
\* the console loop
SerialSaveValue ==
  /\ cfgw.pc = "nvs_set_i32"
  /\ nvs' = IF cfgw.stage = "pregain"
            THEN [nvs EXCEPT !.pregain.gain = Stored(cfgw.fixed)]
            ELSE [nvs EXCEPT !.limiter.threshold = Stored(cfgw.fixed)]
  /\ cfgw' = NoWriter
  /\ ser' = [ser EXCEPT !.calls = Append(@, SaveName(cfgw.stage))]
  /\ UNCHANGED <<subsonic, pregain, equalizer, limiter, audio, mq, lim_io, ncmds, mqtt, wifi, con>>

NextRace ==
  \/ \E c \in RaceCmds : SerialSetter(c)
  \/ SerialSaveEnabled
  \/ SerialConvert
  \/ SerialSaveValue
  \/ \E c \in RaceCmds : MqttCommand(c, "ok")

SpecRace == Init /\ [][NextRace]_vars

-----------------------------------------------------------------------------
(* Claim checked under SpecRace                                             *)

\* what the stage's save_settings writes for the configuration in memory
Persisted(key, x) == key.has => key.v = x

\* C7: whenever no command is in progress, every key the store holds has
\* the value save_settings writes for the stage as it is in memory (every
\* save of SpecRace succeeds).
C7_StoreMatchesMemory ==
  cfgw.pc = "idle" =>
    /\ Persisted(nvs.pregain.enabled, Flag(pregain.enabled))
    /\ Persisted(nvs.pregain.gain, FloatTimes100ToInt(pregain.gain_db))
    /\ Persisted(nvs.limiter.enabled, Flag(limiter.enabled))
    /\ Persisted(nvs.limiter.threshold, FloatTimes100ToInt(limiter.threshold_db))
    /\ Persisted(nvs.subsonic.enabled, Flag(subsonic.enabled))
    /\ Persisted(nvs.subsonic.frequency, subsonic.cutoff_freq)
    /\ Persisted(nvs.equalizer.enabled, Flag(equalizer.enabled))
    /\ \A b \in Bands :
         Persisted(nvs.equalizer.band[b], FloatTimes100ToInt(equalizer.gain_db[b]))
-----------------------------------------------------------------------------
(* The stages' public functions called directly, between the statements of  *)
(* the audio task, on a device that has booted from a saved configuration:  *)
(* app_main builds each stage from its defaults and what an earlier save    *)
(* left in the store.                                                       *)

MaxApiCalls == 1  \* direct calls of a setter in one behaviour

\* the five band gains an earlier session saved
SavedGains == {<<0, 0, 0, 0, 0>>, <<600, 0, 0, 0, 0>>, <<600, 600, 0, 0, 0>>}

\* the store after each stage's save_settings with the given enabled flags
\* and band gains
saved_store(es, ep, ee, el, gains) ==
  [subsonic  |-> subsonic_save_settings(subsonic_set_enabled(subsonic_init, es),
                                        nvs_empty.subsonic, "ok"),
   pregain   |-> pregain_save_settings(pregain_set_enabled(pregain_init, ep),
                                       nvs_empty.pregain, "ok"),
   equalizer |-> equalizer_save_settings(
                   set_bands(equalizer_set_enabled(equalizer_init, ee), gains, 0),
                   nvs_empty.equalizer, "ok"),
   limiter   |-> limiter_save_settings(limiter_set_enabled(limiter_init, el),
                                       nvs_empty.limiter, "ok")]

\* what is remembered of the last direct call: the function, its arguments,
\* its return value and the stage before and after it
NoCall == [pc |-> "idle", fn |-> "none", band |-> 0, v |-> 0, ret |-> TRUE,
           pre |-> <<>>, post |-> <<>>]

Called(fn, band, v, ret, pre, post) ==
  [pc |-> "idle", fn |-> fn, band |-> band, v |-> v, ret |-> ret, pre |-> pre, post |-> post]

InitApi ==
  /\ \E es \in BOOLEAN, ep \in BOOLEAN, ee \in BOOLEAN, el \in BOOLEAN, gains \in SavedGains :
       nvs = saved_store(es, ep, ee, el, gains)
  /\ subsonic = boot_subsonic(nvs.subsonic)
  /\ pregain = boot_pregain(nvs.pregain)
  /\ equalizer = boot_equalizer(nvs.equalizer)
  /\ limiter = boot_limiter(nvs.limiter)
  /\ audio = AudioIdle
  /\ ser = Idle
  /\ mq = Idle
  /\ cfgw = NoCall
  /\ lim_io = NoLimIo
  /\ ncmds = 0
  /\ mqtt = NotConnected
  /\ wifi = WifiOff
  /\ con = ConsoleIdle

\* arguments of the direct calls: a band below, inside and above 0..4, gains
\* and thresholds below, inside and above their ranges
ApiBands == {-1, 0, 5}
ApiGains == {-2000, 0, 2000}
ApiPregains == {-2000, 53, 2000}
ApiThresholds == {-2000, -53, 100}

CallSetBandGain(band, gain_db) ==
  /\ ncmds < MaxApiCalls
  /\ equalizer' = equalizer_set_band_gain(equalizer, band, gain_db)
  /\ cfgw' = Called("equalizer_set_band_gain", band, gain_db,
                    equalizer_set_band_gain_ret(band), equalizer, equalizer')
  /\ ncmds' = ncmds + 1
  /\ UNCHANGED <<subsonic, pregain, limiter, nvs, audio, ser, mq, lim_io, mqtt, wifi, con>>

CallPregainSetGain(gain_db) ==
  /\ ncmds < MaxApiCalls
  /\ pregain' = pregain_set_gain(pregain, gain_db)
  /\ cfgw' = Called("pregain_set_gain", 0, gain_db, pregain_set_gain_ret(gain_db),
                    pregain, pregain')
  /\ ncmds' = ncmds + 1
  /\ UNCHANGED <<subsonic, equalizer, limiter, nvs, audio, ser, mq, lim_io, mqtt, wifi, con>>

CallLimiterSetThreshold(threshold_db) ==
  /\ ncmds < MaxApiCalls
  /\ limiter' = limiter_set_threshold(limiter, threshold_db)
  /\ cfgw' = Called("limiter_set_threshold", 0, threshold_db,
                    limiter_set_threshold_ret(threshold_db),
                    [threshold_db |-> limiter.threshold_db],
                    [threshold_db |-> limiter'.threshold_db])
  /\ ncmds' = ncmds + 1
  /\ UNCHANGED <<subsonic, pregain, equalizer, nvs, audio, ser, mq, lim_io, mqtt, wifi, con>>

NextApi ==
  \/ \E band \in ApiBands, gain_db \in ApiGains : CallSetBandGain(band, gain_db)
  \/ \E gain_db \in ApiPregains : CallPregainSetGain(gain_db)
  \/ \E threshold_db \in ApiThresholds : CallLimiterSetThreshold(threshold_db)
  \/ \E block \in InputBlocks : AudioRead(block)
  \/ AudioReadFail
  \/ AudioShiftDown
  \/ AudioSubsonic
  \/ AudioPregain
  \/ AudioEqualizer
  \/ AudioLimiter
  \/ AudioShiftUp
  \/ \E ok \in BOOLEAN : AudioWrite(ok)

SpecApi == InitApi /\ [][NextApi]_vars

-----------------------------------------------------------------------------
(* pregain_process called on blocks of full 32 bit samples, with every gain *)
(* of the table: the stage as a function of its block and its gain.         *)

\* samples of a block: small, 24 bit ones, 2^24 + 1 (not a float),
\* around 2^31 / 3.98 and 2^31 / 2, and the ends of the int32 range
GainSamples ==
  {0, 1, -3, 5000001, 8388607, -8388608, 16777217, -33554435, 539424000, -539430000,
   1076500000, INT32_MAX, INT32_MIN}

\* a block of one stereo frame
GainBlocks == {<<l, r>> : l \in GainSamples, r \in GainSamples}

InitGain ==
  /\ \E db \in {TableDb[i] : i \in 1..Len(TableDb)}, enabled \in BOOLEAN :
       pregain = pregain_set_enabled(pregain_set_gain(pregain_init, db), enabled)
  /\ \E block \in GainBlocks :
       audio = [AudioIdle EXCEPT !.pc = "pregain_process", !.buf = block, !.prev = block]
  /\ subsonic = subsonic_init
  /\ equalizer = equalizer_init
  /\ limiter = limiter_init
  /\ nvs = nvs_empty
  /\ ser = Idle
  /\ mq = Idle
  /\ cfgw = NoWriter
  /\ lim_io = NoLimIo
  /\ ncmds = 0
  /\ mqtt = NotConnected
  /\ wifi = WifiOff
  /\ con = ConsoleIdle

NextGain == AudioPregain

SpecGain == InitGain /\ [][NextGain]_vars

-----------------------------------------------------------------------------
(* The console task and the MQTT event task with the store failing: each    *)
(* save_settings a command calls ends in one of SaveOutcomes.               *)

NextSave ==
  \/ \E c \in SerialCmds, outcome \in SaveOutcomes : SerialCommand(c, outcome)
  \/ \E c \in MqttCmds, outcome \in SaveOutcomes : MqttCommand(c, outcome)

SpecSave == InitCfg /\ [][NextSave]_vars

-----------------------------------------------------------------------------
(* The MQTT client connecting and disconnecting while the console and the   *)
(* MQTT task handle commands.  Commands arrive over MQTT only while the     *)
(* client is connected.                                                     *)

\* MQTT_EVENT_CONNECTED: subscribe, then publish every state
MqttConnected ==
  /\ ~mqtt.s_is_connected
  /\ mqtt' = mqtt_manager_publish_all_states([mqtt EXCEPT !.s_is_connected = TRUE], Sys)
  /\ UNCHANGED <<subsonic, pregain, equalizer, limiter, nvs, audio, ser, mq, cfgw, lim_io, ncmds, wifi, con>>

\* MQTT_EVENT_DISCONNECTED
MqttDisconnected ==
  /\ mqtt.s_is_connected
  /\ mqtt' = [mqtt EXCEPT !.s_is_connected = FALSE]
  /\ UNCHANGED <<subsonic, pregain, equalizer, limiter, nvs, audio, ser, mq, cfgw, lim_io, ncmds, wifi, con>>

NextPub ==
  \/ MqttConnected
  \/ MqttDisconnected
  \/ \E c \in MqttCmds : mqtt.s_is_connected /\ MqttCommand(c, "ok")
  \/ \E c \in SerialCmds : SerialCommand(c, "ok")

SpecPub == InitCfg /\ [][NextPub]_vars

-----------------------------------------------------------------------------
(* The console task and the MQTT event task with the store failing, and a   *)
(* restart of the device at any moment between two commands.                *)

NextPower ==
  \/ \E c \in SerialCmds, outcome \in SaveOutcomes : SerialCommand(c, outcome)
  \/ \E c \in MqttCmds, outcome \in SaveOutcomes : MqttCommand(c, outcome)
  \/ Reboot

SpecPower == InitCfg /\ [][NextPower]_vars

-----------------------------------------------------------------------------
(* The audio task with the console's reset commands in between              *)

\* the console commands drawn: the three resets, and setters that take the
\* configuration away from its defaults
ResetCmds ==
  {Cmd(verb, 0, 0, "") : verb \in {"sub_reset", "eq_reset", "lim_reset", "lim_disable"}}
    \cup {Cmd("sub_freq", 0, 5000, ""), Cmd("eq_set", 0, 600, ""),
          Cmd("lim_threshold", 0, -1200, "")}

NextReset ==
  \/ \E block \in InputBlocks : AudioRead(block)
  \/ AudioReadFail
  \/ AudioShiftDown
  \/ AudioSubsonic
  \/ AudioPregain
  \/ AudioEqualizer
  \/ AudioLimiter
  \/ AudioShiftUp
  \/ \E ok \in BOOLEAN : AudioWrite(ok)
  \/ \E c \in ResetCmds : SerialCommand(c, "ok")

SpecReset == InitCfg /\ [][NextReset]_vars

-----------------------------------------------------------------------------
(* limiter_process frame by frame after limiter_init at each of the sample  *)
(* rates audio_config.h names                                               *)

InitRate ==
  /\ subsonic = subsonic_init
  /\ pregain = pregain_init
  /\ equalizer = equalizer_init
  /\ \E rate \in SupportedRates :
       /\ limiter = limiter_init_at(rate)
       /\ lim_io = [NoLimIo EXCEPT !.sample_rate = rate]
  /\ nvs = nvs_empty
  /\ audio = AudioIdle
  /\ ser = Idle
  /\ mq = Idle
  /\ cfgw = NoWriter
  /\ ncmds = 0
  /\ mqtt = NotConnected
  /\ wifi = WifiOff
  /\ con = ConsoleIdle

SpecRate == InitRate /\ [][NextLim]_vars

-----------------------------------------------------------------------------
(* limiter_process, limiter_reset and limiter_reset_stats called in any     *)
(* order between the blocks.  No command of the console reaches             *)
(* limiter_reset_stats; it is called as the public function limiter.h       *)
(* declares.                                                                *)

CallLimiterResetStats ==
  /\ lim_io.pc = "idle"
  /\ lim_io.stat_resets < MaxStatResets
  /\ limiter' = limiter_reset_stats(limiter)
  /\ lim_io' = [lim_io EXCEPT !.updated = FALSE, !.seen = Two24, !.stat_resets = @ + 1]
  /\ UNCHANGED <<subsonic, pregain, equalizer, nvs, audio, ser, mq, cfgw, ncmds, mqtt, wifi, con>>

NextStats ==
  \/ \E shape \in LimShapes : LimiterCall(shape)
  \/ LimiterFrame
  \/ LimiterCommand(Cmd("lim_reset", 0, 0, ""))
  \/ CallLimiterResetStats

SpecStats == Init /\ [][NextStats]_vars

-----------------------------------------------------------------------------
(* app_main from wifi_manager_init to the creation of the audio task, and   *)
(* the WiFi events handled by event_handler in the event task               *)

\* app_main has loaded the four stages; the store may hold credentials and
\* a broker
InitBoot ==
  /\ subsonic = boot_subsonic(nvs_empty.subsonic)
  /\ pregain = boot_pregain(nvs_empty.pregain)
  /\ equalizer = boot_equalizer(nvs_empty.equalizer)
  /\ limiter = boot_limiter(nvs_empty.limiter)
  /\ nvs = nvs_empty
  /\ audio = AudioIdle
  /\ ser = Idle
  /\ mq = Idle
  /\ cfgw = NoWriter
  /\ lim_io = NoLimIo
  /\ ncmds = 0
  /\ mqtt = NotConnected
  /\ \E credentials, broker \in BOOLEAN :
       wifi = [WifiOff EXCEPT !.credentials = credentials, !.broker = broker,
                              !.pc = "wifi_manager_init"]
  /\ con = ConsoleIdle

WifiBecomes(w) ==
  /\ wifi' = w
  /\ UNCHANGED <<subsonic, pregain, equalizer, limiter, nvs, audio, ser, mq, cfgw,
                 lim_io, ncmds, mqtt, con>>

AppWifiManagerInit ==
  /\ wifi.pc = "wifi_manager_init"
  /\ WifiBecomes(wifi_manager_init(wifi))

\* xEventGroupWaitBits(..., portMAX_DELAY) returns once a bit is set
AppWaitBitsReturn ==
  /\ wifi.pc = "xEventGroupWaitBits"
  /\ wifi.bits # {}
  /\ WifiBecomes([wifi EXCEPT !.pc = "mqtt_manager_init"])

AppMqttManagerInit ==
  /\ wifi.pc = "mqtt_manager_init"
  /\ WifiBecomes(mqtt_manager_init(wifi))

\* serial_commands_init and the neopixel set-up
AppSerialCommandsInit ==
  /\ wifi.pc = "serial_commands_init"
  /\ WifiBecomes([wifi EXCEPT !.pc = "xTaskCreatePinnedToCore"])

\* the audio task is created
AppCreateAudioTask ==
  /\ wifi.pc = "xTaskCreatePinnedToCore"
  /\ WifiBecomes([wifi EXCEPT !.pc = "running"])

AppMain ==
  \/ AppWifiManagerInit
  \/ AppWaitBitsReturn
  \/ AppMqttManagerInit
  \/ AppSerialCommandsInit
  \/ AppCreateAudioTask

\* the station has started
WifiStaStart ==
  /\ wifi.start_event
  /\ WifiBecomes(event_handler(wifi, "WIFI_EVENT_STA_START"))

\* a connection attempt is answered by an address
WifiGotIp ==
  /\ wifi.pending
  /\ WifiBecomes(event_handler(wifi, "IP_EVENT_STA_GOT_IP"))

\* a connection attempt is answered by a disconnect event
WifiConnectFailed ==
  /\ wifi.pending
  /\ WifiBecomes(event_handler(wifi, "WIFI_EVENT_STA_DISCONNECTED"))

\* an established connection is lost
WifiLinkLost ==
  /\ wifi.s_is_connected
  /\ ~wifi.pending
  /\ WifiBecomes(event_handler(wifi, "WIFI_EVENT_STA_DISCONNECTED"))

WifiAnswer ==
  \/ WifiStaStart
  \/ WifiGotIp
  \/ WifiConnectFailed

NextBoot ==
  \/ AppMain
  \/ WifiAnswer
  \/ WifiLinkLost

\* app_main keeps running, and every connection attempt is answered
SpecBoot ==
  /\ InitBoot
  /\ [][NextBoot]_vars
  /\ WF_vars(AppMain)
  /\ WF_vars(WifiAnswer)

-----------------------------------------------------------------------------
(* The console task, one character per step                                 *)

CharClasses == {"newline", "backspace", "char"}

\* the commands a line may hold
ConsoleLines == {Cmd("status", 0, 0, ""), Cmd("eq_disable", 0, 0, "")}

\* fgetc returned a character of the class; c is the command of the line
ConsoleChar(class, c) ==
  /\ con' = console_char(con, class)
  /\ IF class = "newline" /\ con.cmd_index > 0
     THEN /\ ncmds < MaxCmds
          /\ LET r == process_command(c, Sys, "ok")
             IN  /\ subsonic' = r.S.subsonic
                 /\ pregain' = r.S.pregain
                 /\ equalizer' = r.S.equalizer
                 /\ limiter' = r.S.limiter
                 /\ nvs' = r.S.nvs
                 /\ ser' = Done(ser, ncmds + 1, c, r, "ok")
          /\ ncmds' = ncmds + 1
     ELSE UNCHANGED <<subsonic, pregain, equalizer, limiter, nvs, ser, ncmds>>
  /\ UNCHANGED <<audio, mq, cfgw, lim_io, mqtt, wifi>>

NextConsole == \E class \in CharClasses, c \in ConsoleLines : ConsoleChar(class, c)

SpecConsole == InitCfg /\ [][NextConsole]_vars

-----------------------------------------------------------------------------
(* MQTT_EVENT_DATA: process_mqtt_command on messages of any length          *)

\* payload lengths drawn: empty, short, the longest copied, the shortest
\* refused, long
MsgLengths == {0, 4, 127, 128, 300}

\* a message arrives whose payload of data_len bytes would read as c
MqttMessage(c, data_len) ==
  /\ ncmds < MaxCmds
  /\ LET d == mqtt_received(c, data_len)
         r == process_mqtt_command(d, Sys, "ok")
     IN  /\ subsonic' = r.S.subsonic
         /\ pregain' = r.S.pregain
         /\ equalizer' = r.S.equalizer
         /\ limiter' = r.S.limiter
         /\ nvs' = r.S.nvs
         /\ mq' = Done(mq, ncmds + 1, d, r, "ok")
         /\ mqtt' = [mqtt_publish_after(mqtt_apply(d, Sys).save, mqtt, r.S)
                       EXCEPT !.data_len = data_len]
  /\ ncmds' = ncmds + 1
  /\ UNCHANGED <<audio, ser, cfgw, lim_io, wifi, con>>

NextMsg == \E c \in MqttCmds, data_len \in MsgLengths : MqttMessage(c, data_len)

SpecMsg == InitCfg /\ [][NextMsg]_vars


-----------------------------------------------------------------------------
(* Claims checked under SpecCfg                                             *)

\* C6: for every reachable configuration and every command both channels
\* have, the MQTT command leaves the same stages and the same store as the
\* console command.
C6_MqttSameAsSerial ==
  \A c \in CommonCmds : process_mqtt_command(c, Sys, "ok").S = process_command(c, Sys, "ok").S

ChangingVerbs ==
  {"eq_set", "eq_enable", "eq_disable", "eq_preset", "gain_set", "gain_enable",
   "gain_disable", "lim_threshold", "lim_enable", "lim_disable", "sub_freq",
   "sub_enable", "sub_disable"}

StageOfVerb(verb) ==
  CASE verb \in {"eq_set", "eq_enable", "eq_disable", "eq_preset"} -> "equalizer"
    [] verb \in {"gain_set", "gain_enable", "gain_disable"} -> "pregain"
    [] verb \in {"lim_threshold", "lim_enable", "lim_disable"} -> "limiter"
    [] verb \in {"sub_freq", "sub_enable", "sub_disable"} -> "subsonic"

\* the command is one of the changing verbs and its argument was accepted
ChangesConfig(c) ==
  /\ c.verb \in ChangingVerbs
  /\ c.verb = "sub_freq" => subsonic_freq_ok(c.v)
  /\ c.verb = "eq_set" => c.band \in Bands

\* C8: when the console task has handled a command that changes a stage's
\* configuration, the handler called the setter and then, as its last call
\* before returning to read the next line, that stage's save_settings.
C8_ChangingCommandSaves ==
  ChangesConfig(ser.cmd) =>
    /\ Len(ser.calls) = 2
    /\ ser.calls[2] = SaveName(StageOfVerb(ser.cmd.verb))
    /\ ser.calls[1] # ser.calls[2]

C8_Witness ==
  /\ ser.cmd.verb = "gain_disable"
  /\ ser.calls = <<"pregain_set_enabled", "pregain_save_settings">>
  /\ ~pregain.enabled
  /\ nvs.pregain.enabled = Stored(0)

\* C9: for every reachable configuration, saving a stage and restarting
\* (defaults, then load) gives back the enabled flag and the numbers, to the
\* hundredth, that were in memory.
C9_SaveThenBootRestores ==
  /\ LET b == boot_subsonic(subsonic_save_settings(subsonic, nvs.subsonic, "ok"))
     IN  b.enabled = subsonic.enabled /\ b.cutoff_freq = subsonic.cutoff_freq
  /\ LET b == boot_pregain(pregain_save_settings(pregain, nvs.pregain, "ok"))
     IN  b.enabled = pregain.enabled /\ b.gain_db = pregain.gain_db
  /\ LET b == boot_equalizer(equalizer_save_settings(equalizer, nvs.equalizer, "ok"))
     IN  b.enabled = equalizer.enabled /\ b.gain_db = equalizer.gain_db
  /\ LET b == boot_limiter(limiter_save_settings(limiter, nvs.limiter, "ok"))
     IN  b.enabled = limiter.enabled /\ b.threshold_db = limiter.threshold_db

-----------------------------------------------------------------------------
(* Claims checked under Spec                                                *)

LoopOrder ==
  <<"read", "shr8", "subsonic_process", "pregain_process", "equalizer_process",
    "limiter_process", "shl8", "write">>

StageCalls == {"subsonic_process", "pregain_process", "equalizer_process", "limiter_process"}

\* C2: the statements an iteration has run since its successful read are at
\* every moment a prefix of read, >> 8, subsonic_process, pregain_process,
\* equalizer_process, limiter_process, << 8, write (each stage once, in that
\* order, between the shifts), and a block is written only when all of them
\* have run.
C2_FixedStageOrder ==
  /\ Len(audio.log) <= Len(LoopOrder)
  /\ audio.log = SubSeq(LoopOrder, 1, Len(audio.log))
  /\ audio.last = "write" => audio.wlog = LoopOrder
  /\ audio.wrote => audio.wlog = LoopOrder

C2_Witness ==
  /\ audio.wrote
  /\ audio.blocks = 2
  /\ audio.log = LoopOrder
  /\ ncmds > 0

\* C4: after a process call of a stage that was disabled when called, the
\* block equals, sample for sample, the block before the call.
C4_DisabledStagePassesThrough ==
  (audio.last \in StageCalls /\ ~audio.last_enabled) => audio.buf = audio.prev

C4_Witness ==
  /\ audio.last = "equalizer_process"
  /\ ~audio.last_enabled
  /\ equalizer.gain_db[0] = 600
  /\ equalizer.state_left[0].x1 # 0
  /\ audio.buf[1] # 0
  /\ audio.buf = audio.prev

-----------------------------------------------------------------------------
(* Claims checked under SpecApi                                             *)

\* C11: equalizer_set_band_gain with a band outside 0..4 returns false and
\* leaves the whole equalizer as it was; with a band in 0..4 it returns true
\* and leaves the other four bands' gains and coefficients, the ten channel
\* states and the enabled flag as they were.
C11_SetBandGainChangesOneBand ==
  cfgw.fn = "equalizer_set_band_gain" =>
    /\ (cfgw.band < 0 \/ cfgw.band > 4) => (~cfgw.ret /\ cfgw.post = cfgw.pre)
    /\ (cfgw.band >= 0 /\ cfgw.band <= 4) =>
         /\ cfgw.ret
         /\ \A o \in Bands \ {cfgw.band} :
              /\ cfgw.post.gain_db[o] = cfgw.pre.gain_db[o]
              /\ cfgw.post.coeffs[o] = cfgw.pre.coeffs[o]
         /\ cfgw.post.state_left = cfgw.pre.state_left
         /\ cfgw.post.state_right = cfgw.pre.state_right
         /\ cfgw.post.enabled = cfgw.pre.enabled

\* band 0 goes from 6 dB to 12 dB while bands 0 and 1 hold the history of a
\* block
C11_Witness ==
  /\ cfgw.fn = "equalizer_set_band_gain"
  /\ cfgw.band = 0
  /\ cfgw.ret
  /\ cfgw.pre.gain_db[0] = 600
  /\ cfgw.post.gain_db[0] = 1200
  /\ cfgw.post.coeffs[0] # cfgw.pre.coeffs[0]
  /\ cfgw.pre.gain_db[1] = 600
  /\ cfgw.pre.state_left[0].y1 # 0
  /\ cfgw.pre.state_right[1].x1 # 0

\* the value of a range nearest to v
NearestIn(v, lo, hi) == IF v < lo THEN lo ELSE IF v > hi THEN hi ELSE v

OtherStageCalls == {"subsonic_process", "pregain_process", "limiter_process"}

\* C13: a call of equalizer_process made while the five band gains are all
\* 0 dB leaves the block as it was, sample for sample; and when besides the
\* subsonic stage, the pre-gain and the limiter were disabled at their calls,
\* the block after the four stages equals the block that entered them.
C13_FlatEqualizerIsBitExact ==
  /\ (audio.last = "equalizer_process" /\ audio.eq_flat) => audio.buf = audio.prev
  /\ (audio.last = "limiter_process" /\ audio.eq_flat /\ OtherStageCalls \subseteq audio.skipped) =>
       audio.buf = audio.entered

\* the second block after band 0, at 6 dB during the first, was set to 0 dB:
\* the equalizer is enabled and flat, its band 0 holds the history of the
\* first block, and a block that is not silence went through
C13_Witness ==
  /\ audio.last = "limiter_process"
  /\ audio.blocks = 2
  /\ audio.eq_flat
  /\ equalizer.enabled
  /\ OtherStageCalls \subseteq audio.skipped
  /\ cfgw.fn = "equalizer_set_band_gain"
  /\ cfgw.pre.gain_db[0] = 600
  /\ equalizer.state_left[0].y1 # equalizer.state_left[0].x1
  /\ audio.entered[1] # 0
  /\ audio.buf = audio.entered

\* C14: when equalizer_process is about to run its cascade (enabled, some
\* band not at 0 dB) and band 0, the first of the cascade, is at 0 dB, every
\* sample band 0 writes is within five steps (one per truncated product) of
\* the sample it read, whatever the band held before.
C14_ZeroDbBandIsIdentity ==
  (/\ audio.pc = "equalizer_process"
   /\ equalizer.enabled
   /\ equalizer.gain_db[0] = 0
   /\ \E o \in Bands : equalizer.gain_db[o] # 0) =>
     LET r == biquad_block(equalizer.coeffs[0], equalizer.state_left[0],
                           equalizer.state_right[0], audio.buf, 1)
     IN  \A i \in 1..Len(audio.buf) : Abs(r.buf[i] - audio.buf[i]) <= 5

\* a * b as hi * 2^24 + lo with 0 <= lo < 2^24, for |a| < 2^26 and |b| < 2^29,
\* from 12 bit limbs
Product24(a, b) ==
  LET ah == a \div (2 ^ 12)
      al == a % (2 ^ 12)
      bh == b \div (2 ^ 12)
      bl == b % (2 ^ 12)
      M  == ah * bl + al * bh
      L  == (M % (2 ^ 12)) * (2 ^ 12) + al * bl
  IN  [hi |-> ah * bh + (M \div (2 ^ 12)) + (L \div Two24), lo |-> L % Two24]

\* the five products of one evaluation, the feedback ones negated
FiveProducts(c, st, x) ==
  <<Product24(c.b0, x), Product24(c.b1, st.x1), Product24(c.b2, st.x2),
    Product24(-c.a1, st.y1), Product24(-c.a2, st.y2)>>

\* (b0 x + b1 x1 + b2 x2 - a1 y1 - a2 y2) >> 24, the sum shifted once
SingleShift(c, st, x) ==
  LET p == FiveProducts(c, st, x)
  IN  p[1].hi + p[2].hi + p[3].hi + p[4].hi + p[5].hi
        + ((p[1].lo + p[2].lo + p[3].lo + p[4].lo + p[5].lo) \div Two24)

\* (b0 x >> 24) + (b1 x1 >> 24) + (b2 x2 >> 24) - (a1 y1 >> 24) - (a2 y2 >> 24)
SeparateShift(c, st, x) ==
  LET p(a, b) == Product24(a, b).hi
  IN  p(c.b0, x) + p(c.b1, st.x1) + p(c.b2, st.x2) - p(c.a1, st.y1) - p(c.a2, st.y2)

\* the coefficients and channel states of the eleven biquads, two channels each
FilterInstances ==
  {[c |-> subsonic.coeffs, st |-> subsonic.state_left],
   [c |-> subsonic.coeffs, st |-> subsonic.state_right]}
    \cup {[c |-> equalizer.coeffs[b], st |-> equalizer.state_left[b]] : b \in Bands}
    \cup {[c |-> equalizer.coeffs[b], st |-> equalizer.state_right[b]] : b \in Bands}

\* input samples tried: full scale either way and one in between
ProbeSamples == {Two23 - 1, -Two23, 1193046}

ShiftsState(st, x, y, new) ==
  new.x2 = st.x1 /\ new.x1 = x /\ new.y2 = st.y1 /\ new.y1 = y

\* C15 as amended: one evaluation of a biquad of subsonic_process or
\* equalizer_process yields the low 32 bits of
\* (b0 x >> 24) + (b1 x1 >> 24) + (b2 x2 >> 24) - (a1 y1 >> 24) - (a2 y2 >> 24),
\* each 64 bit product shifted on its own before the 64 bit sum, a value
\* within 2 of the sum shifted once; then x2 := x1, x1 := x, y2 := y1, y1 := y.
\* Evaluated on the biquads as the audio task leaves them between two
\* iterations.
C15_EachProductShifted ==
  audio.pc = "read" =>
    \A f \in FilterInstances : \A x \in ProbeSamples :
      LET y == biquad_output(f.c, f.st, x)
      IN  /\ y = ToInt32(SeparateShift(f.c, f.st, x))
          /\ Abs(SeparateShift(f.c, f.st, x) - SingleShift(f.c, f.st, x)) <= 2
          /\ ShiftsState(f.st, x, y, biquad_update(f.st, x, y))

\* a biquad holding the history of a block for which the two values differ
C15_Witness ==
  /\ audio.pc = "read"
  /\ \E f \in FilterInstances : \E x \in ProbeSamples :
       /\ f.st.y1 # 0
       /\ f.st.x2 # 0
       /\ biquad_output(f.c, f.st, x) # SingleShift(f.c, f.st, x)
       /\ biquad_output(f.c, f.st, x) = SeparateShift(f.c, f.st, x)

\* C15 as stated: one evaluation yields
\* (b0 x + b1 x1 + b2 x2 - a1 y1 - a2 y2) >> 24, the 64 bit sum shifted once,
\* and then x2 := x1, x1 := x, y2 := y1, y1 := y.
C15_SumShiftedOnce ==
  audio.pc = "read" =>
    \A f \in FilterInstances : \A x \in ProbeSamples :
      LET y == biquad_output(f.c, f.st, x)
      IN  /\ y = ToInt32(SingleShift(f.c, f.st, x))
          /\ ShiftsState(f.st, x, y, biquad_update(f.st, x, y))

\* blocks as the stages receive them, after >> 8
ShiftedBlocks == {[i \in 1..Len(b) |-> shr8(b[i])] : b \in InputBlocks}

\* the samples put in place of one channel's
OtherChannelSamples == {-5510, Two23 - 1}

\* buf with every right (odd = FALSE) or left (odd = TRUE) sample replaced by v
WithChannel(buf, odd, v) ==
  [i \in 1..Len(buf) |-> IF (i % 2 = 1) = odd THEN v ELSE buf[i]]

\* the left (odd = TRUE) or right samples of buf
ChannelOf(buf, odd) == [f \in 1..(Len(buf) \div 2) |-> IF odd THEN buf[2 * f - 1] ELSE buf[2 * f]]

\* C16: from every state the audio task leaves the two filter stages in, two calls of
\* subsonic_process (of equalizer_process) on blocks that differ only in the
\* right samples write the same left samples and leave the same left state,
\* and two calls on blocks that differ only in the left samples write the
\* same right samples and leave the same right state.
C16_ChannelsIndependent ==
  audio.pc = "read" => \A buf \in ShiftedBlocks : \A v \in OtherChannelSamples :
    LET s1 == subsonic_process(subsonic, buf)
        s2 == subsonic_process(subsonic, WithChannel(buf, FALSE, v))
        s3 == subsonic_process(subsonic, WithChannel(buf, TRUE, v))
        e1 == equalizer_process(equalizer, buf)
        e2 == equalizer_process(equalizer, WithChannel(buf, FALSE, v))
        e3 == equalizer_process(equalizer, WithChannel(buf, TRUE, v))
    IN  /\ ChannelOf(s2.buf, TRUE) = ChannelOf(s1.buf, TRUE)
        /\ s2.st.state_left = s1.st.state_left
        /\ ChannelOf(s3.buf, FALSE) = ChannelOf(s1.buf, FALSE)
        /\ s3.st.state_right = s1.st.state_right
        /\ ChannelOf(e2.buf, TRUE) = ChannelOf(e1.buf, TRUE)
        /\ e2.st.state_left = e1.st.state_left
        /\ ChannelOf(e3.buf, FALSE) = ChannelOf(e1.buf, FALSE)
        /\ e3.st.state_right = e1.st.state_right

\* both stages filter (enabled, the equalizer not flat), both channels of
\* both hold the history of a block, and changing the right samples changes
\* what the equalizer writes on the right
C16_Witness ==
  /\ audio.pc = "read"
  /\ subsonic.enabled
  /\ subsonic.state_left.y1 # 0
  /\ subsonic.state_right.y1 # 0
  /\ equalizer.enabled
  /\ equalizer.gain_db[1] # 0
  /\ equalizer.state_left[1].y1 # 0
  /\ equalizer.state_right[1].y1 # 0
  /\ \E buf \in ShiftedBlocks :
       equalizer_process(equalizer, WithChannel(buf, FALSE, Two23 - 1)).buf
         # equalizer_process(equalizer, buf).buf

-----------------------------------------------------------------------------
(* Claim checked under SpecTear                                             *)

\* C17: when the audio task runs subsonic_process after an accepted
\* subsonic_set_frequency has written its five new coefficients, and so
\* evaluates samples with them, both channel states are zero at that call.
C17_StateZeroUnderNewCoefficients ==
  [][(/\ audio.pc = "subsonic_process"
      /\ audio'.pc = "pregain_process"
      /\ subsonic.enabled
      /\ cfgw.pc = "return"
      /\ cfgw.stage = "subsonic"
      /\ subsonic.coeffs = cfgw.new)
     => (subsonic.state_left = ZeroState /\ subsonic.state_right = ZeroState)]_vars

-----------------------------------------------------------------------------
(* Claim checked under Spec                                                 *)

\* C18: a call of limiter_process made while the limiter is disabled leaves
\* the block and the whole limiter as they were: the look-ahead buffer,
\* write_index, the envelope, is_triggered and the statistics, so that the
\* pair at write_index after re-enabling is the one stored before the bypass.
C18_BypassKeepsLimiterState ==
  [][(audio.pc = "limiter_process" /\ audio'.pc = "shl8" /\ ~limiter.enabled)
     => (/\ limiter' = limiter
         /\ audio'.buf = audio.buf)]_vars

\* a bypassed call of limiter_process on a block that is not silence, after
\* a call that stored one block and advanced write_index
C18_Witness ==
  /\ audio.last = "limiter_process"
  /\ ~audio.last_enabled
  /\ ~limiter.enabled
  /\ audio.blocks = 2
  /\ audio.buf[1] # 0
  /\ limiter.write_index = 2 * NumFrames
  /\ limiter.lookahead_buffer[0] # 0
  /\ audio.buf = audio.prev

-----------------------------------------------------------------------------
(* Claims checked under SpecLim                                             *)

\* C19: in every state of the limiter, between any two frames,
\* 0 <= write_index < lookahead_samples <= MAX_LOOKAHEAD_SAMPLES, and
\* lookahead_samples is the value limiter_init computed; a load of the
\* stored limiter settings would leave both as they are.
C19_WriteIndexInsideLookahead ==
  /\ 0 <= limiter.write_index
  /\ limiter.write_index < limiter.lookahead_samples
  /\ limiter.lookahead_samples <= MAX_LOOKAHEAD_SAMPLES
  /\ limiter.lookahead_samples = limiter_init.lookahead_samples
  /\ LET loaded == limiter_load_settings(limiter, nvs.limiter).st
     IN  /\ loaded.lookahead_samples = limiter.lookahead_samples
         /\ loaded.write_index = limiter.write_index

\* the second call has run its last frame: write_index has wrapped twice
C19_Witness ==
  /\ lim_io.stepped
  /\ lim_io.calls = 2
  /\ lim_io.pc = "idle"
  /\ lim_io.i = DMA_BUFFER_SIZE
  /\ limiter.write_index = 0
  /\ limiter.lookahead_buffer[limiter.lookahead_samples - 2] # 0

\* C20: after every frame limiter_process has processed, the envelope lies
\* between the floor MIN_ENVELOPE and 1.0, both included.
C20_EnvelopeBetweenFloorAndOne ==
  lim_io.stepped => (MIN_ENVELOPE <= limiter.envelope /\ limiter.envelope <= Two24)

\* a frame of the attack under the -12 dB threshold: the envelope went down,
\* below 0.5
C20_Witness ==
  /\ lim_io.stepped
  /\ limiter.threshold_db = -1200
  /\ limiter.envelope < lim_io.env_before
  /\ 2 * limiter.envelope < Two24
  /\ limiter.envelope >= MIN_ENVELOPE

-----------------------------------------------------------------------------
(* More claims checked under Spec                                           *)

\* the sample pairs of a block whose peak is above the linear threshold
PairsOver(l, buf) ==
  Cardinality({k \in 1..(Len(buf) \div 2) :
                 LET peak == Max2(Abs(buf[2 * k - 1]), Abs(buf[2 * k]))
                 IN  2 * peak > l.threshold /\ peak > 0})

\* C21 as amended: clip_prevented_count counts sample pairs: one call of
\* limiter_process on an enabled limiter increases it by the number of pairs
\* of the block whose peak is above the linear threshold.
C21_CountsPairsOverThreshold ==
  [][(audio.pc = "limiter_process" /\ audio'.pc = "shl8" /\ limiter.enabled)
     => limiter'.clip_prevented_count
          = limiter.clip_prevented_count + PairsOver(limiter, audio.buf)]_vars

\* the first call, on a block with both pairs above the threshold, has
\* counted two
C21_Witness ==
  /\ audio.last = "limiter_process"
  /\ audio.last_enabled
  /\ audio.blocks = 1
  /\ PairsOver(limiter, audio.prev) = 2
  /\ limiter.clip_prevented_count = 2

\* C21 as stated: one call of limiter_process on an enabled limiter
\* increases clip_prevented_count by 1 if some pair of the block had a peak
\* above the linear threshold, and by 0 otherwise.
C21_CountsBlocksOverThreshold ==
  [][(audio.pc = "limiter_process" /\ audio'.pc = "shl8" /\ limiter.enabled)
     => limiter'.clip_prevented_count
          = limiter.clip_prevented_count
              + (IF PairsOver(limiter, audio.buf) > 0 THEN 1 ELSE 0)]_vars

-----------------------------------------------------------------------------
(* Claims checked under SpecGain                                            *)

\* floor(|x| * g / 2^24) for an int32 x and a Q24 gain g below 2^27, or 2^31 - 1
\* when that is 2^31 or more: the magnitude of the exact product, saturated.
\* |x| = a1 * 2^8 + a0, so |x| * g = (a1 * g) * 2^8 + a0 * g.
SaturatedProduct(x, g) ==
  LET a1 == IF x = INT32_MIN THEN Two23 ELSE Abs(x) \div 256
      a0 == IF x = INT32_MIN THEN 0 ELSE Abs(x) % 256
      c  == MulShr(a0, g, 8)
      lo20 == (MulLo30(a1, g) % (2 ^ 20)) + c
      top == MulShr(a1, g, 20) + (lo20 \div (2 ^ 20))
      lo16 == (MulLo30(a1, g) % Two16) + c
  IN  IF top >= 2 ^ 27 THEN INT32_MAX
      ELSE MulShr(a1, g, 16) + (lo16 \div Two16)

\* the magnitude of a written sample, INT32_MIN counted as 2^31 - 1
Magnitude(y) == IF y = INT32_MIN THEN INT32_MAX ELSE Abs(y)

\* the samples pregain_process has multiplied
Multiplied ==
  /\ audio.last = "pregain_process"
  /\ audio.last_enabled
  /\ pregain.gain_db # 0

\* C22 as amended: each sample written by pregain_process has the sign of
\* the input sample (or is 0) and a magnitude within one part in 2^23, plus
\* 1, of the exact product saturated to the int32 range: the product is a
\* single precision one, of 24 significant bits, and is never wrapped.
C22_ProductWithinFloatPrecision ==
  Multiplied =>
    \A i \in 1..Len(audio.buf) :
      LET x == audio.prev[i]
          y == audio.buf[i]
          p == SaturatedProduct(x, pregain.gain_linear)
      IN  /\ (x >= 0 => y >= 0) /\ (x <= 0 => y <= 0)
          /\ Magnitude(y) - p <= (p \div Two23) + 1
          /\ p - Magnitude(y) <= (p \div Two23) + 1

\* a sample whose product is beyond the range was written as INT32_MAX and
\* one that takes more than 24 bits was rounded
C22_Witness ==
  /\ Multiplied
  /\ audio.prev[1] = 1076500000
  /\ audio.buf[1] = INT32_MAX
  /\ audio.prev[2] < 0
  /\ audio.buf[2] # INT32_MIN
  /\ Magnitude(audio.buf[2]) # SaturatedProduct(audio.prev[2], pregain.gain_linear)

\* C22 as stated: each sample written by pregain_process is the exact
\* product of the sample and the linear gain, saturated to the int32 range.
C22_ExactProductSaturated ==
  Multiplied =>
    \A i \in 1..Len(audio.buf) :
      Magnitude(audio.buf[i]) = SaturatedProduct(audio.prev[i], pregain.gain_linear)

-----------------------------------------------------------------------------
(* More claims checked under Spec                                           *)

\* C23: an iteration whose read fails runs no stage and writes nothing: the
\* four stages, the buffer and the record of the last write are as before
\* and the task is at the read again; after the write, failed or not, the
\* task is at the read again with the four stages as the limiter left them.
C23_TransportFailureSkipsBlock ==
  [][/\ (audio.pc = "read" /\ audio'.last = "read_failed" /\ audio'.blocks # audio.blocks)
        => /\ audio'.pc = "read"
           /\ audio'.log = <<>>
           /\ audio'.buf = audio.buf
           /\ audio'.wlog = audio.wlog
           /\ <<subsonic, pregain, equalizer, limiter>>' = <<subsonic, pregain, equalizer, limiter>>
     /\ (audio.pc = "write" /\ audio'.pc # "write")
        => /\ audio'.pc = "read"
           /\ <<subsonic, pregain, equalizer, limiter>>' = <<subsonic, pregain, equalizer, limiter>>]_vars

\* the first block was processed and its write failed; the second read
\* failed, and the filter state and the look-ahead buffer of the first
\* block are still there
C23_Witness ==
  /\ audio.blocks = 2
  /\ audio.last = "read_failed"
  /\ audio.pc = "read"
  /\ ~audio.wrote
  /\ Len(audio.wlog) = 8
  /\ subsonic.state_left # ZeroState
  /\ limiter.lookahead_buffer[0] # 0
  /\ limiter.write_index # 0

-----------------------------------------------------------------------------
(* More claims checked under SpecCfg                                        *)

\* nothing is stored in a stage's namespace
NothingStored(ns) == \A k \in DOMAIN ns : IF k = "band" THEN \A b \in Bands : ~ns[k][b].has
                                                         ELSE ~ns[k].has

\* the console and the MQTT task have handled nothing since the last restart
JustBooted == ser = Idle /\ mq = Idle /\ ncmds > 0

-----------------------------------------------------------------------------
(* Claim checked under SpecSave                                             *)

\* the four stages of a configuration
StagesOf(S) == <<S.subsonic, S.pregain, S.equalizer, S.limiter>>

\* C25: in every configuration, also one reached through commands whose
\* save failed, a console or MQTT command leaves the same four stages when
\* its save_settings fails as when it succeeds; a failed nvs_open leaves
\* the store as it was.
C25_FailedSaveKeepsChange ==
  /\ \A c \in SerialCmds, outcome \in SaveOutcomes \ {"ok"} :
       /\ StagesOf(process_command(c, Sys, outcome).S)
            = StagesOf(process_command(c, Sys, "ok").S)
       /\ outcome = "open_fails" => process_command(c, Sys, outcome).S.nvs = nvs
  /\ \A c \in MqttCmds, outcome \in SaveOutcomes \ {"ok"} :
       /\ StagesOf(process_mqtt_command(c, Sys, outcome).S)
            = StagesOf(process_mqtt_command(c, Sys, "ok").S)
       /\ outcome = "open_fails" => process_mqtt_command(c, Sys, outcome).S.nvs = nvs

\* the MQTT gain command's save could not open the store and the console's
\* "lim disable" after it failed at the threshold key: both changes are in
\* memory, the store holds the limiter's flag only
C25_Witness ==
  /\ mq.n = 1
  /\ mq.cmd.verb = "gain_set"
  /\ mq.outcome = "open_fails"
  /\ ser.n = 2
  /\ ser.cmd.verb = "lim_disable"
  /\ ser.outcome = "set_fails"
  /\ pregain.gain_db = 53
  /\ ~limiter.enabled
  /\ NothingStored(nvs.pregain)
  /\ nvs.limiter.enabled = Stored(0)
  /\ ~nvs.limiter.threshold.has

-----------------------------------------------------------------------------
(* Claim checked under SpecPub                                              *)

\* C26: while the MQTT client is connected, the payload retained on each
\* stage's state topic is the one the stage's current enabled flag and
\* parameters are published as, after any command of either channel.
C26_RetainedStateIsCurrent ==
  mqtt.s_is_connected =>
    mqtt.retained = mqtt_manager_publish_all_states(mqtt, Sys).retained

-----------------------------------------------------------------------------
(* More claims checked under SpecLim                                        *)

\* the calls that found the limiter enabled since limiter_init or the last
\* limiter_reset of the console
CallsSince ==
  SelectSeq(lim_io.hist, LAMBDA h : h.n >= ser.reset_at)

\* the number of pairs processed since then, the one of the last frame included
PairsSince == (Len(CallsSince) - 1) * (DMA_BUFFER_SIZE \div 2) + (lim_io.i \div 2)

\* the n-th input pair since then, the zero pair for n < 1
InputPair(n) ==
  IF n < 1 THEN <<0, 0>>
  ELSE LET c == ((n - 1) \div (DMA_BUFFER_SIZE \div 2)) + 1
           k == ((n - 1) % (DMA_BUFFER_SIZE \div 2)) + 1
       IN  <<LimSample(CallsSince[c].shape, 2 * k - 1), LimSample(CallsSince[c].shape, 2 * k)>>

\* what the last frame must have written by the claim: the input pair of
\* lookahead_samples / 2 steps earlier times the envelope
DelayedOutput ==
  LET p == InputPair(PairsSince - (limiter.lookahead_samples \div 2))
      g == limiter_gain_q16(limiter.envelope)
  IN  <<limiter_apply(p[1], g), limiter_apply(p[2], g)>>

C28_CallbackOnRisingEdgeOnly ==
  [][lim_io.pc = "loop" =>
       LET rising == ~limiter.is_triggered /\ limiter'.is_triggered
       IN  /\ lim_io'.fired <=> (limiter.trigger_cb /\ rising)
           /\ lim_io'.notified = lim_io.notified + (IF limiter.trigger_cb /\ rising THEN 1 ELSE 0)]_vars

\* the callback was invoked when the first block took the envelope down, not
\* while is_triggered stayed true, not when the envelope recovered, and a
\* second time when the second block took it down again
C28_Witness ==
  /\ lim_io.stepped
  /\ limiter.trigger_cb
  /\ lim_io.calls = 2
  /\ lim_io.notified = 2
  /\ lim_io.fired
  /\ ~lim_io.was_triggered
  /\ limiter.is_triggered

\* C29: between two frames is_triggered is true exactly when the envelope
\* is below 0.999, also right after limiter_reset.
C29_TriggeredIffEnvelopeLow ==
  limiter.is_triggered <=> (limiter.envelope < TRIGGER_LEVEL)

\* C30: once a call of limiter_process has found the limiter disabled,
\* is_triggered is false for as long as the limiter stays disabled.
C30_NotTriggeredWhileBypassed ==
  (~limiter.enabled /\ lim_io.bypassed) => ~limiter.is_triggered

-----------------------------------------------------------------------------
(* Claims about the resets, the look-ahead length and the sample width      *)

\* the configuration values of the stages
SubsonicConfig(s) == <<s.enabled, s.cutoff_freq, s.coeffs>>
EqualizerConfig(eq) == <<eq.enabled, eq.gain_db, eq.coeffs>>
LimiterConfig(l) ==
  <<l.enabled, l.threshold_db, l.threshold, l.lookahead_samples,
    l.attack_coeff, l.release_coeff, l.trigger_cb>>

\* the running state of the stages is clear
SubsonicClear(s) == s.state_left = ZeroState /\ s.state_right = ZeroState
EqualizerClear(eq) ==
  \A b \in Bands : eq.state_left[b] = ZeroState /\ eq.state_right[b] = ZeroState
LimiterClear(l) ==
  /\ \A i \in 0..(MAX_LOOKAHEAD_SAMPLES - 1) : l.lookahead_buffer[i] = 0
  /\ l.write_index = 0
  /\ l.envelope = Two24

\* C31: the console's sub reset, eq reset and lim reset clear the running
\* state of their stage (every biquad channel state; the look-ahead buffer,
\* write_index and the envelope) and leave every configuration value of
\* every stage as it was.
C31_ResetKeepsConfiguration ==
  [][(ser'.n = ser.n + 1 /\ ser'.cmd.verb \in {"sub_reset", "eq_reset", "lim_reset"}) =>
       /\ SubsonicConfig(subsonic') = SubsonicConfig(subsonic)
       /\ EqualizerConfig(equalizer') = EqualizerConfig(equalizer)
       /\ LimiterConfig(limiter') = LimiterConfig(limiter)
       /\ pregain' = pregain
       /\ nvs' = nvs
       /\ ser'.cmd.verb = "sub_reset" => SubsonicClear(subsonic')
       /\ ser'.cmd.verb = "eq_reset" => EqualizerClear(equalizer')
       /\ ser'.cmd.verb = "lim_reset" => LimiterClear(limiter')]_vars

\* lim reset after the limiter worked on a block over a threshold of -12 dB:
\* the buffer is clear again and the threshold is still -12 dB
C31_Witness ==
  /\ ser.cmd.verb = "lim_reset"
  /\ limiter.clip_prevented_count > 0
  /\ limiter.threshold_db = -1200
  /\ LimiterClear(limiter)

\* the numbers of frames that are 5 ms of audio to within one frame
FiveMilliseconds ==
  {d \in 0..(2 * MAX_LOOKAHEAD_SAMPLES) :
     Abs(d * 1000 - LIMITER_LOOKAHEAD_MS * lim_io.sample_rate) < 1000}

\* the left output of the last frame, when not zero, was fed as a left input
\* that is not zero 5 ms of frames earlier
OutputFiveMillisecondsLate ==
  lim_io.out_l # 0 => \E d \in FiveMilliseconds : InputPair(PairsSince - d)[1] # 0

\* C32: at each supported sample rate the enabled limiter delays the audio
\* by 5 ms: a frame whose left output is not zero was fed a left input that
\* is not zero 5 ms of frames earlier.
C32_DelayIsFiveMilliseconds ==
  [][lim_io.pc = "loop" => OutputFiveMillisecondsLate']_vars

C34_LimiterOutputFitsIn24Bits ==
  audio.last = "limiter_process" =>
    \A i \in 1..Len(audio.buf) : -Two23 <= audio.buf[i] /\ audio.buf[i] < Two23

-----------------------------------------------------------------------------
(* Claims about the WiFi manager, the boot and the console                  *)

\* C35: s_retry_num is between 0 and WIFI_MAXIMUM_RETRY; every reconnect
\* attempt since the last got-IP event was counted in it, so there are at
\* most 5 of them; an attempt is waiting or the station is connected or the
\* fail bit is set whenever a start was handled; and with s_retry_num at 5
\* and no attempt waiting, the station is connected or the fail bit is set.
C35_RetriesBounded ==
  /\ wifi.s_retry_num \in 0..WIFI_MAXIMUM_RETRY
  /\ wifi.reconnects = wifi.s_retry_num
  /\ wifi.reconnects <= 5
  /\ (wifi.s_is_connected => wifi.s_retry_num = 0 /\ ~wifi.pending)
  /\ (wifi.s_retry_num > 0 /\ ~wifi.pending) =>
       (wifi.s_retry_num = WIFI_MAXIMUM_RETRY /\ "WIFI_FAIL_BIT" \in wifi.bits)
  /\ ("WIFI_FAIL_BIT" \in wifi.bits /\ ~wifi.pending /\ ~wifi.s_is_connected) =>
       wifi.s_retry_num = WIFI_MAXIMUM_RETRY

\* a connection was made and lost, five reconnect attempts failed and the
\* sixth disconnect event set the fail bit
C35_Witness ==
  /\ wifi.bits = {"WIFI_CONNECTED_BIT", "WIFI_FAIL_BIT"}
  /\ wifi.s_retry_num = 5
  /\ wifi.reconnects = 5
  /\ ~wifi.pending
  /\ ~wifi.s_is_connected

\* C36: app_main eventually creates the audio task, with or without
\* credentials and broker in the store, when every connection attempt is
\* answered.
C36_AudioTaskEventuallyCreated ==
  <>(wifi.pc = "running")

\* the audio task runs after five failed reconnect attempts
C36_Witness ==
  /\ wifi.pc = "running"
  /\ wifi.credentials
  /\ wifi.bits = {"WIFI_FAIL_BIT"}
  /\ wifi.s_retry_num = 5

\* C40: cmd_index stays between 0 and 127 and no index above 127 of
\* cmd_buffer is written; a character at cmd_index 127 is discarded, a
\* backspace at 0 does nothing, and a line is passed to process_command
\* exactly at a newline with cmd_index above 0; after a newline cmd_index is 0.
C40_LineBufferBounded ==
  /\ con.cmd_index \in 0..(CMD_BUFFER_SIZE - 1)
  /\ con.hi <= CMD_BUFFER_SIZE - 1
  /\ con.last = "newline" => con.cmd_index = 0 /\ (con.passed <=> con.before > 0)
  /\ con.last # "newline" => ~con.passed
  /\ con.last = "backspace" =>
       con.cmd_index = (IF con.before > 0 THEN con.before - 1 ELSE 0)
  /\ con.last = "char" =>
       con.cmd_index = (IF con.before < 127 THEN con.before + 1 ELSE 127)
  /\ ncmds > 0 => con.hi >= 1

\* the 128th character of a line was discarded
C40_Witness ==
  /\ con.last = "char"
  /\ con.before = 127
  /\ con.cmd_index = 127
  /\ con.hi = 126

-----------------------------------------------------------------------------
(* Claims about MQTT payloads, the boot and the limiter statistics          *)

\* C37: a message whose payload is empty or 128 bytes or longer changes no
\* stage and nothing in the store, and calls no setter and no save.
C37_BadPayloadChangesNothing ==
  [][(mq'.n # mq.n /\ (mqtt'.data_len = 0 \/ mqtt'.data_len >= VALUE_SIZE)) =>
       /\ UNCHANGED <<subsonic, pregain, equalizer, limiter, nvs>>
       /\ mq'.calls = <<>>]_vars


\* the enabled flag a stage's part of the store holds, as the load reads it
StoredFlag(ns) == ns.enabled.v # 0

\* C38: at boot, whenever the store holds an enabled flag for a stage, the
\* stage's enabled flag after app_main's load step equals the stored flag,
\* even if the stage's numeric keys are missing from the store.
C38_BootKeepsStoredFlag ==
  JustBooted =>
    /\ nvs.subsonic.enabled.has => subsonic.enabled = StoredFlag(nvs.subsonic)
    /\ nvs.pregain.enabled.has => pregain.enabled = StoredFlag(nvs.pregain)
    /\ nvs.equalizer.enabled.has => equalizer.enabled = StoredFlag(nvs.equalizer)
    /\ nvs.limiter.enabled.has => limiter.enabled = StoredFlag(nvs.limiter)

\* C39: after every statistics update in limiter_process, peak_reduction_db
\* is the dB value of the smallest envelope a statistics update has seen
\* since the most recent limiter_reset_stats (or limiter_init), whatever the
\* sequence of limiter_process, limiter_reset and limiter_reset_stats calls.
\* (peak_reduction_db is kept as the envelope whose dB value it holds.)
C39_PeakReductionIsSmallestSeen ==
  lim_io.updated => limiter.peak_reduction_db = lim_io.seen
====
